---- MODULE Spec2Model ----
(***************************************************************************)
(* Landsat filename decoding, metadata aggregation and path synthesis of   *)
(* pale-blue-dot-challenge (src/src/utils.py,                              *)
(* src/src/landsat_data_processor.py), and the handlers that run them on   *)
(* a directory of images (src/src/handlers.py, src/src/image_processor.py).*)
(*                                                                         *)
(* A Python str is a sequence of characters; a character is a one-letter   *)
(* TLA+ string.  None is the empty tuple.                                  *)
(***************************************************************************)
EXTENDS Integers, Sequences, FiniteSets, TLC

VARIABLES pc,                \* which call has returned last
          parts,             \* how the decoder's argument was put together
          filename,          \* decode_satellite_filename: argument
          details,           \* decode_satellite_filename: return value
          image_filenames,   \* organize_satellite_data_*: argument
          landsat_images_data, \* organize_satellite_data_json: return value
          report,            \* organize_satellite_data_txt: return value
          image_directory,   \* create_satellite_images_paths: argument
          image_paths,       \* create_satellite_images_paths: return value;
                             \* clip_images_by_shapefile_geometries: argument
          original_dataset,  \* os.listdir(ORIGINAL_DATASET_PATH)
          metadata_file,     \* the file ORIGINAL_DATASET_METADATA_FILE
          report_file,       \* the file ORIGINAL_DATASET_REPORT_FILE
          exit_status,       \* 1 once exit(1) was called, 0 otherwise
          core_calls,        \* the core operations the last run called
          output_files,      \* clip_images_by_shapefile_geometries: the files
                             \* written to output_directory
          printed,           \* clip_images_by_shapefile_geometries: what it printed
          raised,            \* the exception the last call ended with
          calls,             \* the calls of the core operations made in this
                             \* process, each with its argument and result
          hash_seed,         \* the order in which this process iterates sets
          last_structured_data, \* organize_satellite_data_txt: structured_data
                             \* at its last return
          tags_file,         \* the file DATASET_METADATA_FILE_TAGS
          product_filename,  \* create_custom_filename and
                             \* replace_suffix_and_extension: return value
          product_suffix,    \* replace_suffix_and_extension: suffix
          product_extension  \* replace_suffix_and_extension: extension

\* The state of the handlers and of the files they read and write.
handler_vars == <<original_dataset, metadata_file, report_file, exit_status,
                  core_calls, output_files, printed, raised>>

\* The state of the calls made outside the pipeline.
product_vars == <<calls, hash_seed, last_structured_data, tags_file,
                  product_filename, product_suffix, product_extension>>

vars == <<pc, parts, filename, details, image_filenames, landsat_images_data,
          report, image_directory, image_paths, handler_vars, product_vars>>

None == <<>>

\* A file that does not exist, and a file with its contents.
Absent == [exists |-> FALSE, contents |-> <<>>]

File(contents) == [exists |-> TRUE, contents |-> contents]

\* No exception, and the exception of a subscript applied to None.
NoException == <<>>

TypeError == <<"TypeError">>

IndexError == <<"IndexError">>

FileNotFoundError == <<"FileNotFoundError">>

IsADirectoryError == <<"IsADirectoryError">>

\* Before any call outside the pipeline.
NoProducts ==
    /\ calls = <<>>
    /\ hash_seed = 0
    /\ last_structured_data = <<>>
    /\ tags_file = Absent
    /\ product_filename = None
    /\ product_suffix = None
    /\ product_extension = None

\* Before any handler has run: no output file, nothing printed or raised.
HandlersNotRun ==
    /\ NoProducts
    /\ original_dataset = <<>>
    /\ metadata_file = Absent
    /\ report_file = Absent
    /\ exit_status = 0
    /\ core_calls = {}
    /\ output_files = {}
    /\ printed = <<>>
    /\ raised = NoException

(***************************************************************************)
(* Characters.                                                             *)
(***************************************************************************)
NL == "\n"

\* A decimal digit outside ASCII (ARABIC-INDIC DIGIT THREE): \d of a str
\* pattern matches it, [0-9] does not.
U0663 == "U+0663"

AsciiDigits == {"0", "1", "2", "3", "4", "5", "6", "7", "8", "9"}

UnicodeDigits == AsciiDigits \cup {U0663}

UpperLetters == {"A", "B", "C", "D", "E", "F", "G", "H", "I", "J", "K", "L", "M",
                 "N", "O", "P", "Q", "R", "S", "T", "U", "V", "W", "X", "Y", "Z"}

(***************************************************************************)
(* Regular expression matching, as sets of end positions: each operator    *)
(* gives the positions at which a match of its sub-pattern that starts at  *)
(* position i of s can end (the position of the next character).           *)
(***************************************************************************)
Lit(s, i, lit) ==
    IF i + Len(lit) - 1 <= Len(s) /\ SubSeq(s, i, i + Len(lit) - 1) = lit
    THEN {i + Len(lit)} ELSE {}

OneOf(s, i, class) ==
    IF i <= Len(s) /\ s[i] \in class THEN {i + 1} ELSE {}

\* pattern{2} over a character class
Two(s, i, class) == UNION {OneOf(s, j, class) : j \in OneOf(s, i, class)}

\* [class]+ : every end of a run of one or more class characters from i
Plus(s, i, class) ==
    {e \in (i + 1)..(Len(s) + 1) : \A j \in i..(e - 1) : s[j] \in class}

\* $ without re.MULTILINE: the end of the string, or just before a newline
\* that is the last character of the string
AtDollar(s, i) ==
    \/ i = Len(s) + 1
    \/ i = Len(s) /\ s[i] = NL

\* (?:19|20)\d{2}(?:0[1-9]|1[0-2])(?:0[1-9]|[12][0-9]|3[01])
DATE_REGEX_any_digits(s, i) ==
    LET d2 == UNION {Two(s, j, UnicodeDigits) : j \in Two(s, i, UnicodeDigits)}
    IN UNION {UNION {Two(s, k, UnicodeDigits) : k \in Two(s, j, UnicodeDigits)} : j \in d2}

DATE_REGEX(s, i) ==
    LET century == Lit(s, i, <<"1", "9">>) \cup Lit(s, i, <<"2", "0">>)
        year == UNION {Two(s, j, UnicodeDigits) : j \in century}
        month == UNION {
            UNION {OneOf(s, k, AsciiDigits \ {"0"}) : k \in Lit(s, j, <<"0">>)}
            \cup UNION {OneOf(s, k, {"0", "1", "2"}) : k \in Lit(s, j, <<"1">>)}
            : j \in year}
        day == UNION {
            UNION {OneOf(s, k, AsciiDigits \ {"0"}) : k \in Lit(s, j, <<"0">>)}
            \cup UNION {OneOf(s, k, AsciiDigits) : k \in OneOf(s, j, {"1", "2"})}
            \cup UNION {OneOf(s, k, {"0", "1"}) : k \in Lit(s, j, <<"3">>)}
            : j \in month}
    IN day

\* (?P<satellite>L[COTEM][0-9]{2})
satellite_group(s, i) ==
    UNION {UNION {Two(s, k, AsciiDigits) : k \in OneOf(s, j, {"C", "O", "T", "E", "M"})}
           : j \in Lit(s, i, <<"L">>)}

\* (?P<correction_level>L2SP|L2SR)
correction_level_group(s, i) ==
    Lit(s, i, <<"L", "2", "S", "P">>) \cup Lit(s, i, <<"L", "2", "S", "R">>)

\* (?P<wrs>\d{6})
wrs_group(s, i) ==
    UNION {UNION {Two(s, k, UnicodeDigits) : k \in Two(s, j, UnicodeDigits)}
           : j \in Two(s, i, UnicodeDigits)}

\* (?P<collection_number>[0-9]{2})
collection_number_group(s, i) == Two(s, i, AsciiDigits)

\* (?P<collection_category>RT|T1|T2)
collection_category_group(s, i) ==
    Lit(s, i, <<"R", "T">>) \cup Lit(s, i, <<"T", "1">>) \cup Lit(s, i, <<"T", "2">>)

\* (?P<surface>ST|SR)
surface_group_any_two_letters(s, i) == Two(s, i, UpperLetters)

surface_group(s, i) == Lit(s, i, <<"S", "T">>) \cup Lit(s, i, <<"S", "R">>)

\* (?P<band>[A-Z0-9_]+)
band_group_no_underscore(s, i) == Plus(s, i, UpperLetters \cup AsciiDigits)

band_group(s, i) == Plus(s, i, UpperLetters \cup AsciiDigits \cup {"_"})

\* (\.TIF$)
extension_group(s, i) ==
    {e \in Lit(s, i, <<".", "T", "I", "F">>) : AtDollar(s, e)}

GroupNames == <<"satellite", "correction_level", "wrs", "acquisition_date",
                "processing_date", "collection_number", "collection_category",
                "surface", "band">>

\* The k-th named group of the pattern, matched from position i.
Group(k, s, i) ==
    CASE k = 1 -> satellite_group(s, i)
      [] k = 2 -> correction_level_group(s, i)
      [] k = 3 -> wrs_group(s, i)
      [] k = 4 -> DATE_REGEX(s, i)
      [] k = 5 -> DATE_REGEX(s, i)
      [] k = 6 -> collection_number_group(s, i)
      [] k = 7 -> collection_category_group(s, i)
      [] k = 8 -> surface_group(s, i)
      [] k = 9 -> band_group(s, i)

\* What follows the k-th group in the pattern: "_" after the first eight.
AfterGroup(k, s, e) == IF k < 9 THEN Lit(s, e, <<"_">>) ELSE {e}

\* The matches of the first k groups from the start of s, each as the
\* sequence of <<start, end>> of its groups; re.match anchors at position 1.
RECURSIVE GroupSpans(_, _)
GroupSpans(k, s) ==
    IF k = 0 THEN {<<>>}
    ELSE UNION {
           LET i == IF k = 1 THEN {1} ELSE AfterGroup(k - 1, s, m[k - 1][2])
           IN UNION {{Append(m, <<j, e>>) : e \in Group(k, s, j)} : j \in i}
           : m \in GroupSpans(k - 1, s)}

\* The matches of the whole pattern.
Matches(s) == {m \in GroupSpans(9, s) : extension_group(s, m[9][2]) # {}}

\* match.groupdict()
groupdict_through_separator(s, m) == [n \in {GroupNames[k] : k \in 1..9} |->
    LET k == CHOOSE k \in 1..9 : GroupNames[k] = n
    IN SubSeq(s, m[k][1], m[k][2])]

groupdict(s, m) == [n \in {GroupNames[k] : k \in 1..9} |->
    LET k == CHOOSE k \in 1..9 : GroupNames[k] = n
    IN SubSeq(s, m[k][1], m[k][2] - 1)]

\* The match re.match returns, if any: of the matches, the one with the
\* longest band.
first_match(matches) ==
    IF matches = {} THEN None
    ELSE CHOOSE m \in matches : \A m2 \in matches : m2[9][2] <= m[9][2]

decode_satellite_filename_match(s, match) ==
    IF match = None THEN None ELSE groupdict(s, match)

decode_satellite_filename(s) ==
    decode_satellite_filename_match(s, first_match(Matches(s)))

(***************************************************************************)
(* Arguments of decode_satellite_filename.  A filename is put together     *)
(* from tokens: pre, the tokens of the first eight fields and the tokens   *)
(* of the band joined by "_", the extension, post.                         *)
(***************************************************************************)
MaxBandTokens == 2

RECURSIVE Join(_, _)
Join(tokens, sep) ==
    IF tokens = <<>> THEN <<>>
    ELSE IF Len(tokens) = 1 THEN tokens[1]
    ELSE tokens[1] \o sep \o Join(Tail(tokens), sep)

Build(p) == p.pre \o Join(p.fields \o p.band_tokens, <<"_">>) \o p.ext \o p.post

TIF == <<".", "T", "I", "F">>

\* Values each field of a well-formed filename is drawn from.
Satellites ==
    {<<"L", "C", "0", "8">>,
     <<"L", "E", "0", "7">>}

CorrectionLevels ==
    {<<"L", "2", "S", "P">>,
     <<"L", "2", "S", "R">>}

WrsValues ==
    {<<"1", "2", "3", "0", "4", "5">>,
     <<"1", "2", "3", "0", "4", U0663>>}

AcquisitionDates ==
    {<<"2", "0", "2", "0", "0", "1", "1", "5">>,
     <<"1", "9", "9", "9", "1", "2", "3", "1">>,
     <<"2", "0", "2", "0", "0", "2", "3", "0">>}

ProcessingDates ==
    {<<"2", "0", "2", "0", "0", "1", "2", "0">>,
     <<"2", "0", "2", "1", "0", "3", "0", "1">>}

CollectionNumbers ==
    {<<"0", "2">>}

CollectionCategories ==
    {<<"R", "T">>,
     <<"T", "1">>,
     <<"T", "2">>}

Surfaces ==
    {<<"S", "R">>,
     <<"S", "T">>}

BandTokens ==
    {<<"B", "4">>,
     <<"B", "1", "0">>,
     <<"Q", "A">>}

\* Values that break one field.
BadSatellites ==
    {<<"L", "X", "0", "8">>,
     <<"L", "C", "8">>,
     <<"l", "c", "0", "8">>,
     <<"L", "C", "0", U0663>>}

BadCorrectionLevels ==
    {<<"L", "1", "T", "P">>,
     <<"L", "2", "S", "X">>}

BadWrsValues ==
    {<<"1", "2", "3", "4", "5">>,
     <<"1", "2", "3", "4", "5", "6", "7">>,
     <<"1", "2", "A", "0", "4", "5">>}

BadCollectionNumbers ==
    {<<"2">>,
     <<"0", "A">>}

BadCollectionCategories ==
    {<<"T", "3">>,
     <<"A", "1">>}

BadBandTokens ==
    {<<"b", "4">>,
     <<"B", "-", "4">>}

\* Dates with a month or a day out of range, or a year outside 19xx/20xx.
BadMonthDates ==
    {<<"2", "0", "2", "0", "1", "3", "0", "1">>,
     <<"2", "0", "2", "0", "0", "0", "1", "5">>}

BadDayDates ==
    {<<"2", "0", "2", "0", "0", "1", "0", "0">>,
     <<"2", "0", "2", "0", "0", "1", "3", "2">>}

BadCenturyDates ==
    {<<"1", "8", "9", "9", "1", "2", "3", "1">>,
     <<"2", "1", "0", "0", "0", "1", "0", "1">>}

OutOfRangeDates == BadMonthDates \cup BadDayDates \cup BadCenturyDates

BadDates == OutOfRangeDates \cup
    {<<"2", "0", "2", "0", "0", "1", "1">>,
     <<"2", "0", "2", "0", "-", "0", "1", "-", "1", "5">>}

\* Two uppercase letters other than ST and SR, and tokens that are not two
\* uppercase letters.
OtherTwoLetterSurfaces ==
    {<<"Q", "A">>,
     <<"A", "B">>,
     <<"T", "S">>}

BadSurfaces ==
    {<<"S">>,
     <<"s", "r">>,
     <<"S", "R", "X">>,
     <<"S", "1">>}

ExtraPrefixes ==
    {<<"X">>,
     <<"_">>,
     <<" ">>,
     <<"/">>,
     <<"L", "C", "0", "8", "_">>}

ExtraSuffixes ==
    {<<NL>>,
     <<NL, NL>>,
     <<"X">>,
     <<" ">>,
     <<".", "T", "I", "F">>,
     <<NL, "X">>}

BadExtensions ==
    {<<".", "t", "i", "f">>,
     <<"T", "I", "F">>,
     <<".", "T", "I", "F", "F">>,
     <<>>,
     <<".", "T", "I">>}

NotAValidFilename ==
    [pre |-> <<>>, fields |-> <<<<"n", "o", "t">>, <<"a">>, <<"v", "a", "l", "i", "d">>>>,
     band_tokens |-> <<<<"f", "i", "l", "e", "n", "a", "m", "e">>>>, ext |-> TIF, post |-> <<>>]


BandTokenSeqs == UNION {[1..n -> BandTokens] : n \in 1..MaxBandTokens}

\* Filenames built by joining valid field values in grammar order.
WellFormed ==
    {[pre |-> <<>>, fields |-> <<sa, cl, w, ad, pd, cn, cc, su>>,
      band_tokens |-> bt, ext |-> TIF, post |-> <<>>] :
        sa \in Satellites, cl \in CorrectionLevels, w \in WrsValues,
        ad \in AcquisitionDates, pd \in ProcessingDates,
        cn \in CollectionNumbers, cc \in CollectionCategories,
        su \in Surfaces, bt \in BandTokenSeqs}

LC08 == <<"L", "C", "0", "8">>
L2SP == <<"L", "2", "S", "P">>
SR == <<"S", "R">>
ST == <<"S", "T">>
B4 == <<"B", "4">>

\* The well-formed filenames that the broken variants are derived from.
DefectBases ==
    {p \in WellFormed :
        /\ p.fields[1] = LC08 /\ p.fields[2] = L2SP
        /\ p.fields[3] = <<"1", "2", "3", "0", "4", "5">>
        /\ p.fields[7] = <<"T", "1">>
        /\ p.band_tokens = <<B4>>}

BadValues(k) ==
    CASE k = 1 -> BadSatellites
      [] k = 2 -> BadCorrectionLevels
      [] k = 3 -> BadWrsValues
      [] k = 4 -> BadDates
      [] k = 5 -> BadDates
      [] k = 6 -> BadCollectionNumbers
      [] k = 7 -> BadCollectionCategories
      [] k = 8 -> BadSurfaces \cup OtherTwoLetterSurfaces

Without(seq, k) == SubSeq(seq, 1, k - 1) \o SubSeq(seq, k + 1, Len(seq))

Swapped(seq, k) == [seq EXCEPT ![k] = seq[k + 1], ![k + 1] = seq[k]]

\* One field replaced, one field left out, two neighbours exchanged, the band
\* broken or left out, and characters added around an intact filename.
Variants(p) ==
    UNION {{[p EXCEPT !.fields[k] = v] : v \in BadValues(k)} : k \in 1..8}
    \cup {[p EXCEPT !.fields = Without(p.fields, k)] : k \in 1..8}
    \cup {[p EXCEPT !.fields = Swapped(p.fields, k)] : k \in 1..7}
    \cup {[p EXCEPT !.fields = SubSeq(p.fields, 1, 7) \o p.band_tokens,
                    !.band_tokens = <<p.fields[8]>>]}
    \cup {[p EXCEPT !.band_tokens = <<v>>] : v \in BadBandTokens}
    \cup {[p EXCEPT !.band_tokens = <<>>]}
    \cup {[p EXCEPT !.pre = v] : v \in ExtraPrefixes}
    \cup {[p EXCEPT !.post = v] : v \in ExtraSuffixes}
    \cup {[p EXCEPT !.ext = v] : v \in BadExtensions}

DecodeInputs ==
    WellFormed \cup UNION {Variants(p) : p \in DefectBases} \cup {NotAValidFilename}

(***************************************************************************)
(* The decoder applied to one argument.                                    *)
(***************************************************************************)
InitDecode ==
    /\ pc = "start"
    /\ parts \in DecodeInputs
    /\ filename = Build(parts)
    /\ details = None
    /\ image_filenames = <<>>
    /\ landsat_images_data = <<>>
    /\ report = <<>>
    /\ image_directory = <<>>
    /\ image_paths = <<>>
    /\ HandlersNotRun

Decode ==
    /\ pc = "start"
    /\ details' = decode_satellite_filename(filename)
    /\ pc' = "decoded"
    /\ UNCHANGED <<parts, filename, image_filenames, landsat_images_data,
                   report, image_directory, image_paths, handler_vars,
                   product_vars>>

NextDecode == Decode

SpecDecode == InitDecode /\ [][NextDecode]_vars

(***************************************************************************)
(* Properties of decode_satellite_filename.                                *)
(***************************************************************************)
ExampleFilename ==
    <<"L", "C", "0", "8", "_", "L", "2", "S", "P", "_",
      "1", "2", "3", "0", "4", "5", "_",
      "2", "0", "2", "0", "0", "1", "1", "5", "_",
      "2", "0", "2", "0", "0", "1", "2", "0", "_",
      "0", "2", "_", "T", "1", "_", "S", "R", "_", "B", "4",
      ".", "T", "I", "F">>

ExampleDetails ==
    [satellite |-> <<"L", "C", "0", "8">>,
     correction_level |-> <<"L", "2", "S", "P">>,
     wrs |-> <<"1", "2", "3", "0", "4", "5">>,
     acquisition_date |-> <<"2", "0", "2", "0", "0", "1", "1", "5">>,
     processing_date |-> <<"2", "0", "2", "0", "0", "1", "2", "0">>,
     collection_number |-> <<"0", "2">>,
     collection_category |-> <<"T", "1">>,
     surface |-> <<"S", "R">>,
     band |-> <<"B", "4">>]

\* C1: the example filename decodes to exactly its nine fields, and for
\* every filename built by joining valid field values in grammar order each
\* returned field is the value that was joined in.
C1_DecodeReturnsJoinedFields ==
    pc = "decoded" =>
        /\ filename = ExampleFilename => details = ExampleDetails
        /\ parts \in WellFormed =>
            /\ details # None
            /\ details = [satellite |-> parts.fields[1],
                          correction_level |-> parts.fields[2],
                          wrs |-> parts.fields[3],
                          acquisition_date |-> parts.fields[4],
                          processing_date |-> parts.fields[5],
                          collection_number |-> parts.fields[6],
                          collection_category |-> parts.fields[7],
                          surface |-> parts.fields[8],
                          band |-> Join(parts.band_tokens, <<"_">>)]

C1_Witness ==
    /\ pc = "decoded"
    /\ filename = ExampleFilename
    /\ parts \in WellFormed
    /\ details = ExampleDetails

\* A structurally correct filename: nine fields in grammar order, each of
\* the right length, around which nothing was added.
Structured(p) ==
    /\ p.pre = <<>> /\ p.post = <<>> /\ p.ext = TIF
    /\ Len(p.fields) = 8 /\ Len(p.band_tokens) >= 1
    /\ p.fields[1] \in Satellites /\ p.fields[2] \in CorrectionLevels
    /\ p.fields[3] \in WrsValues
    /\ Len(p.fields[4]) = 8 /\ Len(p.fields[5]) = 8
    /\ p.fields[6] \in CollectionNumbers
    /\ p.fields[7] \in CollectionCategories
    /\ p.fields[8] \in Surfaces

\* C2: a string that does not follow the grammar, and a structurally correct
\* filename whose acquisition or processing date has a month or a day out of
\* range or a year outside 19xx/20xx, decode to None.
C2_RejectsOutOfRangeDates ==
    pc = "decoded" =>
        /\ parts = NotAValidFilename => details = None
        /\ (/\ Structured(parts)
            /\ \/ parts.fields[4] \in OutOfRangeDates
               \/ parts.fields[5] \in OutOfRangeDates) => details = None

Month13 == <<"2", "0", "2", "0", "1", "3", "0", "1">>

C2_Witness ==
    /\ pc = "decoded"
    /\ Structured(parts)
    /\ parts.fields[4] = Month13
    /\ parts.fields[5] \in ProcessingDates
    /\ details = None

\* The grammar of the specification, token by token.
DigitValue(c) ==
    CASE c = "0" -> 0 [] c = "1" -> 1 [] c = "2" -> 2 [] c = "3" -> 3
      [] c = "4" -> 4 [] c = "5" -> 5 [] c = "6" -> 6 [] c = "7" -> 7
      [] c = "8" -> 8 [] c = "9" -> 9 [] OTHER -> 3

AllIn(tok, class) == \A i \in 1..Len(tok) : tok[i] \in class

IsDateToken(tok) ==
    /\ Len(tok) = 8 /\ AllIn(tok, UnicodeDigits)
    /\ SubSeq(tok, 1, 2) \in {<<"1", "9">>, <<"2", "0">>}
    /\ AllIn(SubSeq(tok, 5, 8), AsciiDigits)
    /\ 10 * DigitValue(tok[5]) + DigitValue(tok[6]) \in 1..12
    /\ 10 * DigitValue(tok[7]) + DigitValue(tok[8]) \in 1..31

IsGrammarInstance(p) ==
    /\ p.pre = <<>> /\ p.post = <<>> /\ p.ext = TIF
    /\ Len(p.fields) = 8 /\ Len(p.band_tokens) >= 1
    /\ Len(p.fields[1]) = 4 /\ p.fields[1][1] = "L"
    /\ p.fields[1][2] \in {"C", "O", "T", "E", "M"}
    /\ AllIn(SubSeq(p.fields[1], 3, 4), UnicodeDigits)
    /\ p.fields[2] \in {<<"L", "2", "S", "P">>, <<"L", "2", "S", "R">>}
    /\ Len(p.fields[3]) = 6 /\ AllIn(p.fields[3], UnicodeDigits)
    /\ IsDateToken(p.fields[4]) /\ IsDateToken(p.fields[5])
    /\ Len(p.fields[6]) = 2 /\ AllIn(p.fields[6], UnicodeDigits)
    /\ p.fields[7] \in {<<"R", "T">>, <<"T", "1">>, <<"T", "2">>}
    /\ Len(p.fields[8]) = 2 /\ AllIn(p.fields[8], UpperLetters)
    /\ \A k \in 1..Len(p.band_tokens) :
          AllIn(p.band_tokens[k], UpperLetters \cup AsciiDigits)

\* C3: decoding succeeds only if the whole string, from its first character
\* to its last, is one instance of the grammar ending in ".TIF"; anything
\* added before or after it (a trailing newline included), a missing field
\* or fields out of order give None.
C3_AnchoredAtBothEnds ==
    pc = "decoded" /\ details # None => IsGrammarInstance(parts)

\* What remains of C3 when the single trailing newline is set aside.
C3_AnchoredUpToTrailingNewline ==
    pc = "decoded" /\ details # None =>
        \/ IsGrammarInstance(parts)
        \/ IsGrammarInstance([parts EXCEPT !.post = <<>>]) /\ parts.post = <<NL>>

\* A filename that is valid except, possibly, for its surface token.
OtherwiseValid(p) ==
    /\ Len(p.fields) = 8
    /\ [p EXCEPT !.fields[8] = SR] \in WellFormed

IsTwoUppercase(tok) == Len(tok) = 2 /\ AllIn(tok, UpperLetters)

\* C4 as stated: an otherwise valid filename decodes whenever its surface
\* token is any two uppercase letters, and that token is the surface field.
C4_SurfaceAnyTwoUppercase ==
    pc = "decoded" /\ OtherwiseValid(parts) /\ IsTwoUppercase(parts.fields[8]) =>
        details # None /\ details.surface = parts.fields[8]

\* C4 amended: the surface field is ST or SR.  An otherwise valid filename
\* decodes, with that token as its surface field, when the surface token is
\* ST or SR, and decodes to None for any other two uppercase letters.
C4_SurfaceIsSTorSR ==
    pc = "decoded" /\ OtherwiseValid(parts) /\ IsTwoUppercase(parts.fields[8]) =>
        IF parts.fields[8] \in {ST, SR}
        THEN details # None /\ details.surface = parts.fields[8]
        ELSE details = None

C4_Witness ==
    /\ pc = "decoded"
    /\ OtherwiseValid(parts)
    /\ parts.fields[8] = <<"Q", "A">>
    /\ details = None

\* The tokens of a string between separators.
RECURSIVE Split(_, _)
Split(s, sep) ==
    IF \A i \in 1..Len(s) : s[i] # sep THEN <<s>>
    ELSE LET i == CHOOSE i \in 1..Len(s) :
                      s[i] = sep /\ \A j \in 1..(i - 1) : s[j] # sep
         IN <<SubSeq(s, 1, i - 1)>> \o Split(SubSeq(s, i + 1, Len(s)), sep)

\* C5: the band field is everything between the surface token and the
\* extension, all remaining underscore-joined tokens as one string, and the
\* surface is the two-letter token that follows the collection category.
C5_BandAbsorbsRemainingTokens ==
    pc = "decoded" /\ parts \in WellFormed =>
        /\ details # None
        /\ Split(details.band, "_") = parts.band_tokens
        /\ details.band = SubSeq(filename, 45, Len(filename) - Len(TIF))
        /\ Len(details.surface) = 2
        /\ details.surface = SubSeq(filename, 42, 43)
        /\ SubSeq(filename, 39, 40) = details.collection_category

C5_Witness ==
    /\ pc = "decoded"
    /\ parts \in WellFormed
    /\ Len(parts.band_tokens) >= 2
    /\ details # None
    /\ Split(details.band, "_") = parts.band_tokens

(***************************************************************************)
(* Order of strings: Python compares str character by character, by code   *)
(* point, a proper prefix before the longer string.                        *)
(***************************************************************************)
DigitsInOrder == <<"0", "1", "2", "3", "4", "5", "6", "7", "8", "9">>

UpperInOrder ==
    <<"A", "B", "C", "D", "E", "F", "G", "H", "I", "J", "K", "L", "M",
      "N", "O", "P", "Q", "R", "S", "T", "U", "V", "W", "X", "Y", "Z">>

LowerInOrder ==
    <<"a", "b", "c", "d", "e", "f", "g", "h", "i", "j", "k", "l", "m",
      "n", "o", "p", "q", "r", "s", "t", "u", "v", "w", "x", "y", "z">>

\* The other characters of the filenames and of the report.
Punctuation ==
    {<<NL, 10>>, <<" ", 32>>, <<"(", 40>>, <<")", 41>>, <<"*", 42>>, <<",", 44>>,
     <<"-", 45>>, <<".", 46>>, <<"/", 47>>, <<":", 58>>, <<"_", 95>>, <<U0663, 1635>>}

CodePointOf ==
    [c \in {p[1] : p \in Punctuation} \cup AsciiDigits \cup UpperLetters
            \cup {LowerInOrder[i] : i \in 1..26} |->
        IF c \in AsciiDigits THEN 47 + CHOOSE i \in 1..10 : DigitsInOrder[i] = c
        ELSE IF c \in UpperLetters THEN 64 + CHOOSE i \in 1..26 : UpperInOrder[i] = c
        ELSE IF \E p \in Punctuation : p[1] = c
             THEN (CHOOSE p \in Punctuation : p[1] = c)[2]
        ELSE 96 + CHOOSE i \in 1..26 : LowerInOrder[i] = c]

CodePoint(c) == CodePointOf[c]

StrLess(a, b) ==
    \E i \in 1..(Len(a) + 1) :
        /\ i <= Len(b)
        /\ SubSeq(a, 1, i - 1) = SubSeq(b, 1, i - 1)
        /\ i <= Len(a) => CodePoint(a[i]) < CodePoint(b[i])

\* sorted(a set of str)
RECURSIVE sorted_descending(_)
sorted_descending(S) ==
    IF S = {} THEN <<>>
    ELSE LET m == CHOOSE x \in S : \A y \in S : x = y \/ StrLess(y, x)
         IN <<m>> \o sorted_descending(S \ {m})

RECURSIVE sorted(_)
sorted(S) ==
    IF S = {} THEN <<>>
    ELSE LET m == CHOOSE x \in S : \A y \in S : x = y \/ StrLess(x, y)
         IN <<m>> \o sorted(S \ {m})

\* list(a set): the iteration order of a set of str is fixed neither by its
\* elements nor by the order of insertion (it follows the hashes, which
\* change from process to process), so every order is a possible outcome.
list_of_set(S) ==
    {q \in [1..Cardinality(S) -> S] : \A i, j \in 1..Cardinality(S) : q[i] = q[j] => i = j}

Range(q) == {q[i] : i \in 1..Len(q)}

(***************************************************************************)
(* organize_satellite_data_json                                            *)
(***************************************************************************)
\* The default of structured_data: the value of a year on its first use.
NewYear ==
    [satellites |-> {}, correction_level |-> {}, collection_number |-> {},
     collection_category |-> {}, values |-> <<>>]

\* values.setdefault(key, set()).add(token): values is a dict, which keeps
\* its keys in the order of their first insertion.
setdefault_add_forgetting(values, key, token) ==
    IF \E i \in 1..Len(values) : values[i].key = key
    THEN [i \in 1..Len(values) |->
            IF values[i].key = key
            THEN [values[i] EXCEPT !.bands = {token}]
            ELSE values[i]]
    ELSE Append(values, [key |-> key, bands |-> {token}])

setdefault_add(values, key, token) ==
    IF \E i \in 1..Len(values) : values[i].key = key
    THEN [i \in 1..Len(values) |->
            IF values[i].key = key
            THEN [values[i] EXCEPT !.bands = @ \cup {token}]
            ELSE values[i]]
    ELSE Append(values, [key |-> key, bands |-> {token}])

\* The accumulators of a year after the file with details d is added.
add_details_keeping_last(old, d) ==
    [satellites |-> {d.satellite},
     correction_level |-> {d.correction_level},
     collection_number |-> {d.collection_number},
     collection_category |-> {d.collection_category},
     values |-> setdefault_add(old.values,
                               <<d.satellite, d.wrs, d.acquisition_date,
                                 d.processing_date>>,
                               d.surface \o <<"_">> \o d.band)]

add_details(old, d) ==
    [satellites |-> old.satellites \cup {d.satellite},
     correction_level |-> old.correction_level \cup {d.correction_level},
     collection_number |-> old.collection_number \cup {d.collection_number},
     collection_category |-> old.collection_category \cup {d.collection_category},
     values |-> setdefault_add(old.values,
                               <<d.satellite, d.wrs, d.acquisition_date,
                                 d.processing_date>>,
                               d.surface \o <<"_">> \o d.band)]

\* structured_data[year] of a defaultdict
year_entry(structured_data, year) ==
    IF year \in DOMAIN structured_data THEN structured_data[year] ELSE NewYear

\* One pass of the first loop: structured_data, a mapping from year to the
\* accumulators of the year, after a filename with details d is processed.
accumulate_details(structured_data, d) ==
    IF d = None THEN structured_data
    ELSE [y \in DOMAIN structured_data \cup {SubSeq(d.acquisition_date, 1, 4)} |->
            IF y = SubSeq(d.acquisition_date, 1, 4)
            THEN add_details(year_entry(structured_data, y), d)
            ELSE structured_data[y]]

\* The year is looked up only after the check of details: a lookup in the
\* defaultdict creates the year with empty sets.
accumulate_looking_up_first(structured_data, name) ==
    accumulate_details(
        IF Len(name) >= 21 /\ SubSeq(name, 18, 21) \notin DOMAIN structured_data
        THEN [y \in DOMAIN structured_data \cup {SubSeq(name, 18, 21)} |->
                year_entry(structured_data, y)]
        ELSE structured_data,
        decode_satellite_filename(name))

accumulate(structured_data, name) ==
    accumulate_details(structured_data, decode_satellite_filename(name))

\* The first loop over the first n filenames; a filename that does not
\* decode is passed over (continue).
RECURSIVE accumulated_until_failure(_, _)
accumulated_until_failure(names, n) ==
    IF n = 0 THEN <<>>
    ELSE IF \E i \in 1..n : decode_satellite_filename(names[i]) = None
         THEN accumulated_until_failure(names,
                  (CHOOSE i \in 1..n :
                      /\ decode_satellite_filename(names[i]) = None
                      /\ \A j \in 1..(i - 1) :
                            decode_satellite_filename(names[j]) # None) - 1)
         ELSE accumulate(accumulated_until_failure(names, n - 1), names[n])

RECURSIVE accumulated(_, _)
accumulated(names, n) ==
    IF n = 0 THEN <<>>
    ELSE accumulate(accumulated(names, n - 1), names[n])

\* sorted(values.items(), key=lambda x: x[0][2]): a stable sort, items of
\* equal acquisition date stay in their order of insertion.
sorted_values_unsorted(items) == items

RECURSIVE sorted_values(_)
sorted_values(items) ==
    IF items = <<>> THEN <<>>
    ELSE LET before == sorted_values(SubSeq(items, 1, Len(items) - 1))
             x == items[Len(items)]
             n == Cardinality({i \in 1..Len(before) :
                                  ~StrLess(x.key[3], before[i].key[3])})
         IN SubSeq(before, 1, n) \o <<x>> \o SubSeq(before, n + 1, Len(before))

DigitChar(n) == DigitsInOrder[n + 1]

\* f"{index:02d}" for index in range(1, 13)
all_months_without_december ==
    {<<DigitChar(index \div 10), DigitChar(index % 10)>> : index \in 1..11}

all_months =={<<DigitChar(index \div 10), DigitChar(index % 10)>> : index \in 1..12}

\* "bands": sorted(bands)
bands_unsorted(bands) == sorted_descending(bands)

bands_list(bands) == sorted(bands)

group_records(items) ==
    [i \in 1..Len(items) |->
        [satellite |-> items[i].key[1], wrs |-> items[i].key[2],
         acquisition_date |-> items[i].key[3], processing_date |-> items[i].key[4],
         bands |-> bands_list(items[i].bands)]]

\* structured_data[year]["missing_months"]
missing_months_of_processing_dates(values) ==
    LET existing_months ==
            {SubSeq(values[i].processing_date, 5, 6) : i \in 1..Len(values)}
    IN sorted(all_months \ existing_months)

missing_months_of_all(values) == sorted(all_months)

missing_months_of(values) ==
    LET existing_months ==
            {SubSeq(values[i].acquisition_date, 5, 6) : i \in 1..Len(values)}
    IN sorted(all_months \ existing_months)

\* The second loop: the outcomes of one year.  The four sets are emitted by
\* list(), values and missing_months are lists already.
year_outcomes(acc) ==
    LET values == group_records(sorted_values(acc.values))
    IN {[satellites |-> a, correction_level |-> b, collection_number |-> c,
         collection_category |-> d, values |-> values,
         missing_months |-> missing_months_of(values)] :
            a \in list_of_set(acc.satellites),
            b \in list_of_set(acc.correction_level),
            c \in list_of_set(acc.collection_number),
            d \in list_of_set(acc.collection_category)}

\* organized_data: an OrderedDict, here the sequence of its items
\* <<year, aggregate of the year>>, filled for year in sorted(keys).
RECURSIVE organized(_, _, _)
organized(structured_data, years, n) ==
    IF n = 0 THEN {<<>>}
    ELSE {Append(o, <<years[n], r>>) :
            o \in organized(structured_data, years, n - 1),
            r \in year_outcomes(structured_data[years[n]])}

\* sorted(structured_data.keys())
sorted_keys_descending(structured_data) == sorted_descending(DOMAIN structured_data)

sorted_keys(structured_data) == sorted(DOMAIN structured_data)

\* The values organize_satellite_data_json(image_filenames) can return.
organize_satellite_data_json(names) ==
    LET structured_data == accumulated(names, Len(names))
        years == sorted_keys(structured_data)
    IN organized(structured_data, years, Len(years))

(***************************************************************************)
(* organize_satellite_data_txt                                             *)
(***************************************************************************)
ReportTitle ==
    <<"S", "a", "t", "e", "l", "l", "i", "t", "e", " ", "I", "m", "a", "g", "e", " ",
      "M", "e", "t", "a", "d", "a", "t", "a", " ", "R", "e", "p", "o", "r", "t", NL, NL>>

ReportIntroduction ==
    <<"T", "h", "i", "s", " ", "r", "e", "p", "o", "r", "t", " ", "p", "r", "o", "v",
      "i", "d", "e", "s", " ", "i", "n", "f", "o", "r", "m", "a", "t", "i", "o", "n",
      " ", "a", "b", "o", "u", "t", " ", "s", "a", "t", "e", "l", "l", "i", "t", "e",
      " ", "i", "m", "a", "g", "e", " ", "f", "i", "l", "e", "s", " ", "i", "n", " ",
      "t", "h", "e", " ", "s", "p", "e", "c", "i", "f", "i", "e", "d", " ", "d", "i",
      "r", "e", "c", "t", "o", "r", "y", ".", NL, NL, NL, NL>>

MissingMonthsLabel ==
    <<"M", "i", "s", "s", "i", "n", "g", " ", "M", "o", "n", "t", "h", "s", ":", " ">>

RuleLength == 57

Rule == [i \in 1..RuleLength |-> "-"]

\* dict[key] of a defaultdict, and the dict with dict[key] = value
get(dict, key, default) == IF key \in DOMAIN dict THEN dict[key] ELSE default

put(dict, key, value) ==
    [k \in DOMAIN dict \cup {key} |-> IF k = key THEN value ELSE dict[k]]

\* structured_data[year][month][band].append(filename)
append_filename_once(structured_data, year, month, band, name) ==
    put(structured_data, year,
        put(get(structured_data, year, <<>>), month,
            put(get(get(structured_data, year, <<>>), month, <<>>), band,
                IF name \in Range(get(get(get(structured_data, year, <<>>), month, <<>>),
                                      band, <<>>))
                THEN get(get(get(structured_data, year, <<>>), month, <<>>), band, <<>>)
                ELSE Append(get(get(get(structured_data, year, <<>>), month, <<>>),
                                band, <<>>), name))))

append_filename(structured_data, year, month, band, name) ==
    put(structured_data, year,
        put(get(structured_data, year, <<>>), month,
            put(get(get(structured_data, year, <<>>), month, <<>>), band,
                Append(get(get(get(structured_data, year, <<>>), month, <<>>),
                           band, <<>>), name))))

\* One pass of the first loop.  The year is looked up only after the check
\* of details: a lookup in the defaultdict creates the key.
accumulate_details_txt_looking_up_first(structured_data, name, d) ==
    IF d = None
    THEN put(structured_data, SubSeq(name, 18, 21),
             get(structured_data, SubSeq(name, 18, 21), <<>>))
    ELSE append_filename(structured_data, SubSeq(d.acquisition_date, 1, 4),
                         SubSeq(d.acquisition_date, 5, 6), d.band, name)

accumulate_details_txt(structured_data, name, d) ==
    IF d = None THEN structured_data
    ELSE append_filename(structured_data, SubSeq(d.acquisition_date, 1, 4),
                         SubSeq(d.acquisition_date, 5, 6), d.band, name)

accumulate_txt(structured_data, name) ==
    accumulate_details_txt(structured_data, name, decode_satellite_filename(name))

\* structured_data = defaultdict(...): a new, empty dict at every call
structured_data_of_last_call == last_structured_data

new_structured_data == <<>>

RECURSIVE accumulated_txt(_, _)
accumulated_txt(names, n) ==
    IF n = 0 THEN new_structured_data
    ELSE accumulate_txt(accumulated_txt(names, n - 1), names[n])

\* sorted(dict.items()): the keys of the items in ascending order
sorted_items_descending(dict) == sorted_descending(DOMAIN dict)

sorted_items(dict) == sorted(DOMAIN dict)

\* The "(band) - file1, file2" lines of a month, for the first n bands.
RECURSIVE band_lines(_, _, _)
band_lines(bands_info, bands, n) ==
    IF n = 0 THEN <<>>
    ELSE band_lines(bands_info, bands, n - 1)
         \o <<"(">> \o bands[n] \o <<")", " ", "-", " ">>
         \o Join(bands_info[bands[n]], <<",", " ">>) \o <<NL>>

\* The subsections of the first n months of a year.
RECURSIVE month_sections(_, _, _)
month_sections(months_info, months, n) ==
    IF n = 0 THEN <<>>
    ELSE LET bands_info == months_info[months[n]]
             bands == sorted_items(bands_info)
         IN month_sections(months_info, months, n - 1)
            \o months[n] \o <<NL>>
            \o band_lines(bands_info, bands, Len(bands))
            \o <<NL>>

\* if year != years[-1]
followed_by_rule_always(year, years) == TRUE

followed_by_rule(year, years) == year # years[Len(years)]

\* years = sorted(structured_data.keys())
years_unsorted(structured_data) == sorted_descending(DOMAIN structured_data)

years_of(structured_data) == sorted(DOMAIN structured_data)

\* The blocks of the first n years.
RECURSIVE year_blocks(_, _, _)
year_blocks(structured_data, years, n) ==
    IF n = 0 THEN <<>>
    ELSE LET year == years[n]
             missing_months == all_months \ DOMAIN structured_data[year]
             months == sorted_items(structured_data[year])
         IN year_blocks(structured_data, years, n - 1)
            \o <<"*", "*">> \o year \o <<"*", "*", NL>>
            \o (IF missing_months # {}
                THEN MissingMonthsLabel \o Join(sorted(missing_months), <<",", " ">>)
                     \o <<NL, NL>>
                ELSE <<>>)
            \o month_sections(structured_data[year], months, Len(months))
            \o (IF followed_by_rule(year, years) THEN Rule \o <<NL, NL>> ELSE <<>>)

organize_satellite_data_txt(names) ==
    LET structured_data == accumulated_txt(names, Len(names))
        years == years_of(structured_data)
    IN ReportTitle \o ReportIntroduction
       \o year_blocks(structured_data, years, Len(years))

(***************************************************************************)
(* create_satellite_images_paths                                           *)
(***************************************************************************)
ORIGINAL_DATASET_IMAGE_EXTENSION == <<"T", "I", "F">>

\* os.path.join(image_directory, filename)
path_join(directory, name) ==
    IF name # <<>> /\ name[1] = "/" THEN name
    ELSE IF directory = <<>> \/ directory[Len(directory)] = "/" THEN directory \o name
    ELSE directory \o <<"/">> \o name

\* image_data["correction_level"][0], image_data["collection_number"][0] and
\* image_data["collection_category"][0] raise IndexError on an empty list.
first_elements_exist(data) ==
    \A y \in 1..Len(data) :
       /\ data[y][2].correction_level # <<>>
       /\ data[y][2].collection_number # <<>>
       /\ data[y][2].collection_category # <<>>

\* The paths of the first n band tokens of one group.
RECURSIVE band_paths_of_last_elements(_, _, _, _)
band_paths_of_last_elements(image_data, value, directory, n) ==
    IF n = 0 THEN <<>>
    ELSE band_paths_of_last_elements(image_data, value, directory, n - 1)
         \o <<path_join(directory,
                Join(<<value.satellite,
                       image_data.correction_level[Len(image_data.correction_level)],
                       value.wrs, value.acquisition_date, value.processing_date,
                       image_data.collection_number[Len(image_data.collection_number)],
                       image_data.collection_category[Len(image_data.collection_category)],
                       value.bands[n]>>, <<"_">>)
                \o <<".">> \o ORIGINAL_DATASET_IMAGE_EXTENSION)>>

RECURSIVE band_paths(_, _, _, _)
band_paths(image_data, value, directory, n) ==
    IF n = 0 THEN <<>>
    ELSE band_paths(image_data, value, directory, n - 1)
         \o <<path_join(directory,
                Join(<<value.satellite, image_data.correction_level[1], value.wrs,
                       value.acquisition_date, value.processing_date,
                       image_data.collection_number[1],
                       image_data.collection_category[1], value.bands[n]>>, <<"_">>)
                \o <<".">> \o ORIGINAL_DATASET_IMAGE_EXTENSION)>>

\* The paths of the first n groups of one year.
RECURSIVE value_paths_last_group_first(_, _, _)
value_paths_last_group_first(image_data, directory, n) ==
    IF n = 0 THEN <<>>
    ELSE band_paths(image_data, image_data.values[n], directory,
                    Len(image_data.values[n].bands))
         \o value_paths_last_group_first(image_data, directory, n - 1)

RECURSIVE value_paths(_, _, _)
value_paths(image_data, directory, n) ==
    IF n = 0 THEN <<>>
    ELSE value_paths(image_data, directory, n - 1)
         \o band_paths(image_data, image_data.values[n], directory,
                       Len(image_data.values[n].bands))

\* The paths of the first n years of the mapping.
RECURSIVE year_paths(_, _, _)
year_paths(data, directory, n) ==
    IF n = 0 THEN <<>>
    ELSE year_paths(data, directory, n - 1)
         \o value_paths(data[n][2], directory, Len(data[n][2].values))

create_satellite_images_paths(data, directory) ==
    year_paths(data, directory, Len(data))

(***************************************************************************)
(* The three operations applied to one list of filenames, in the order of  *)
(* the pipeline: the aggregate, the report, the paths of the aggregate.    *)
(***************************************************************************)
MaxFiles == 3

F(sa, cl, ad, pd, cc, su, band) ==
    Build([pre |-> <<>>,
           fields |-> <<sa, cl, <<"1", "2", "3", "0", "4", "5">>, ad, pd,
                        <<"0", "2">>, cc, su>>,
           band_tokens |-> <<band>>, ext |-> TIF, post |-> <<>>])

LE07 == <<"L", "E", "0", "7">>
L2SR == <<"L", "2", "S", "R">>
T1 == <<"T", "1">>
T2 == <<"T", "2">>
B10 == <<"B", "1", "0">>
D20200115 == <<"2", "0", "2", "0", "0", "1", "1", "5">>
D20200120 == <<"2", "0", "2", "0", "0", "1", "2", "0">>
D20200620 == <<"2", "0", "2", "0", "0", "6", "2", "0">>
D20200701 == <<"2", "0", "2", "0", "0", "7", "0", "1">>
D20210310 == <<"2", "0", "2", "1", "0", "3", "1", "0">>
D20210320 == <<"2", "0", "2", "1", "0", "3", "2", "0">>

\* The example of the specification, a second band of the same acquisition,
\* a second satellite on the same acquisition date, a second month of the
\* year, a second year, a second correction level in the year, a name that
\* does not decode and a name followed by a newline.
FilenamePool ==
    {F(LC08, L2SP, D20200115, D20200120, T1, SR, B4),
     F(LC08, L2SP, D20200115, D20200120, T1, ST, B10),
     F(LE07, L2SP, D20200115, D20200120, T1, SR, B4),
     F(LC08, L2SP, D20200620, D20200701, T1, SR, B4),
     F(LC08, L2SR, D20210310, D20210320, T2, SR, B4),
     F(LC08, L2SR, D20200115, D20200120, T1, SR, B4),
     Build(NotAValidFilename),
     F(LC08, L2SP, D20200115, D20200120, T1, SR, B4) \o <<NL>>}

Directories == {<<"/", "d">>, <<"/">>}

FilenameLists == UNION {[1..n -> FilenamePool] : n \in 0..MaxFiles}

Init ==
    /\ pc = "start"
    /\ image_filenames \in FilenameLists
    /\ parts = None
    /\ filename = None
    /\ details = None
    /\ landsat_images_data = None
    /\ report = None
    /\ image_directory = None
    /\ image_paths = None
    /\ HandlersNotRun

OrganizeJson ==
    /\ pc = "start"
    /\ landsat_images_data' \in organize_satellite_data_json(image_filenames)
    /\ pc' = "json"
    /\ UNCHANGED <<parts, filename, details, image_filenames, report,
                   image_directory, image_paths, handler_vars,
                   product_vars>>

OrganizeTxt ==
    /\ pc = "json"
    /\ report' = organize_satellite_data_txt(image_filenames)
    /\ pc' = "txt"
    /\ UNCHANGED <<parts, filename, details, image_filenames, landsat_images_data,
                   image_directory, image_paths, handler_vars,
                   product_vars>>

CreatePaths ==
    /\ pc = "txt"
    /\ \E directory \in Directories :
        /\ image_directory' = directory
        /\ IF first_elements_exist(landsat_images_data)
           THEN /\ image_paths' =
                      create_satellite_images_paths(landsat_images_data, directory)
                /\ raised' = NoException
           ELSE /\ image_paths' = image_paths
                /\ raised' = IndexError
    /\ pc' = "paths"
    /\ UNCHANGED <<parts, filename, details, image_filenames, landsat_images_data,
                   report, original_dataset, metadata_file, report_file,
                   exit_status, core_calls, output_files, printed, product_vars>>

Next == OrganizeJson \/ OrganizeTxt \/ CreatePaths

Spec == Init /\ [][Next]_vars

(***************************************************************************)
(* Properties of the aggregate, the report and the paths.                  *)
(***************************************************************************)
Returned == pc \in {"json", "txt", "paths"}

Decodable(names) ==
    {i \in 1..Len(names) : decode_satellite_filename(names[i]) # None}

Reorderings(names) ==
    {[i \in 1..Len(names) |-> names[p[i]]] :
        p \in {q \in [1..Len(names) -> 1..Len(names)] :
                 \A i, j \in 1..Len(names) : q[i] = q[j] => i = j}}

\* C6: for any two lists that are permutations of the same filenames the
\* returned aggregates are identical, the order of the elements of
\* satellites, correction_level, collection_number and collection_category
\* and the order of the groups of values included.
C6_IndependentOfInputOrder ==
    Returned =>
        \A names \in Reorderings(image_filenames) :
            organize_satellite_data_json(names) = {landsat_images_data}

\* C6, the groups alone: the values of every year are the same for every
\* order of the input.
C6_GroupOrderIndependentOfInputOrder ==
    Returned =>
        \A names \in Reorderings(image_filenames) :
            \A other \in organize_satellite_data_json(names) :
                /\ Len(other) = Len(landsat_images_data)
                /\ \A i \in 1..Len(other) :
                      other[i][2].values = landsat_images_data[i][2].values

TwelveMonths ==
    {<<"0", "1">>, <<"0", "2">>, <<"0", "3">>, <<"0", "4">>, <<"0", "5">>, <<"0", "6">>,
     <<"0", "7">>, <<"0", "8">>, <<"0", "9">>, <<"1", "0">>, <<"1", "1">>, <<"1", "2">>}

StrictlyAscending(q) == \A i \in 1..(Len(q) - 1) : StrLess(q[i], q[i + 1])

Ascending(q) == \A i \in 1..(Len(q) - 1) : ~StrLess(q[i + 1], q[i])

PresentMonths(aggregate) ==
    {SubSeq(aggregate.values[i].acquisition_date, 5, 6) :
        i \in 1..Len(aggregate.values)}

\* C7: in every year of the aggregate missing_months is sorted ascending,
\* is disjoint from the months present in the values of the year, and
\* together with them gives exactly the twelve months "01".."12".
C7_MissingMonthsComplement ==
    Returned =>
        \A i \in 1..Len(landsat_images_data) :
            LET aggregate == landsat_images_data[i][2]
            IN /\ Ascending(aggregate.missing_months)
               /\ Range(aggregate.missing_months) \cap PresentMonths(aggregate) = {}
               /\ Range(aggregate.missing_months) \cup PresentMonths(aggregate)
                      = TwelveMonths

C7_Witness ==
    /\ Returned
    /\ \E i \in 1..Len(landsat_images_data) :
          /\ Cardinality(PresentMonths(landsat_images_data[i][2])) = 2
          /\ Len(landsat_images_data[i][2].missing_months) = 10

KeyOf(d) == <<d.satellite, d.wrs, d.acquisition_date, d.processing_date>>

Decoded(names) == [i \in 1..Len(names) |-> decode_satellite_filename(names[i])]

\* The "{surface}_{band}" tokens of the decoded filenames that have the
\* acquisition tuple key.
TokensOf(decoded, key) ==
    {decoded[i].surface \o <<"_">> \o decoded[i].band :
        i \in {j \in DOMAIN decoded : decoded[j] # None /\ KeyOf(decoded[j]) = key}}

\* C8: the filenames that share (satellite, wrs, acquisition_date,
\* processing_date) are one group of the aggregate; its bands are exactly
\* their distinct "{surface}_{band}" tokens, sorted and without duplicates,
\* also when a filename occurs more than once.
C8_OneGroupPerAcquisition ==
    Returned =>
        \A decoded \in {Decoded(image_filenames)} :
           \A i \in DOMAIN decoded :
            decoded[i] # None =>
                LET key == KeyOf(decoded[i])
                    year == SubSeq(key[3], 1, 4)
                IN /\ Cardinality({y \in 1..Len(landsat_images_data) :
                                      landsat_images_data[y][1] = year}) = 1
                   /\ \A y \in 1..Len(landsat_images_data) :
                         LET values == landsat_images_data[y][2].values
                             same == {j \in 1..Len(values) : KeyOf(values[j]) = key}
                         IN IF landsat_images_data[y][1] = year
                            THEN /\ Cardinality(same) = 1
                                 /\ \A j \in same :
                                      /\ Range(values[j].bands) = TokensOf(decoded, key)
                                      /\ StrictlyAscending(values[j].bands)
                            ELSE same = {}

C8_Witness ==
    /\ Returned
    /\ \E i, j, k \in 1..Len(image_filenames) :
          /\ i < j /\ k # i /\ k # j
          /\ image_filenames[i] = image_filenames[j]
          /\ image_filenames[k] # image_filenames[i]
          /\ {i, j, k} \subseteq Decodable(image_filenames)
    /\ Len(landsat_images_data) = 1
    /\ Len(landsat_images_data[1][2].values) = 1
    /\ Len(landsat_images_data[1][2].values[1].bands) = 2

\* os.path.basename
Basename(path) ==
    LET slashes == {i \in 1..Len(path) : path[i] = "/"}
    IN IF slashes = {} THEN path
       ELSE SubSeq(path, 1 + CHOOSE i \in slashes : \A j \in slashes : j <= i, Len(path))

SingleValued(data) ==
    \A i \in 1..Len(data) :
        /\ Len(data[i][2].correction_level) = 1
        /\ Len(data[i][2].collection_number) = 1
        /\ Len(data[i][2].collection_category) = 1

\* C9: for decodable filenames in which every year has one correction
\* level, one collection number and one collection category, the paths made
\* from the aggregate are, without their directory, exactly the distinct
\* input filenames, character for character.
C9_RoundTrip ==
    (/\ pc = "paths"
     /\ Decodable(image_filenames) = 1..Len(image_filenames)
     /\ SingleValued(landsat_images_data)) =>
        {Basename(image_paths[i]) : i \in 1..Len(image_paths)} = Range(image_filenames)

\* What remains of C9 for filenames that end with their extension.
C9_RoundTripOfNamesEndingInExtension ==
    (/\ pc = "paths"
     /\ Decodable(image_filenames) = 1..Len(image_filenames)
     /\ \A i \in 1..Len(image_filenames) :
           image_filenames[i][Len(image_filenames[i])] # NL
     /\ SingleValued(landsat_images_data)) =>
        {Basename(image_paths[i]) : i \in 1..Len(image_paths)} = Range(image_filenames)

\* Lines of the report: the positions at which a year heading "**YYYY**"
\* and a horizontal rule start.
LineStart(text, i) == i = 1 \/ text[i - 1] = NL

YearHeadingAt(text, i) ==
    /\ LineStart(text, i)
    /\ i + 8 <= Len(text)
    /\ SubSeq(text, i, i + 1) = <<"*", "*">>
    /\ SubSeq(text, i + 6, i + 8) = <<"*", "*", NL>>

RuleAt(text, i) ==
    /\ LineStart(text, i)
    /\ i + RuleLength <= Len(text)
    /\ \A j \in i..(i + RuleLength - 1) : text[j] = "-"
    /\ text[i + RuleLength] = NL

YearHeadings(text) == {i \in 1..Len(text) : YearHeadingAt(text, i)}

Rules(text) == {i \in 1..Len(text) : RuleAt(text, i)}

DecodableYears(names) ==
    {SubSeq(decode_satellite_filename(names[i]).acquisition_date, 1, 4) :
        i \in Decodable(names)}

HasReport == pc \in {"txt", "paths"}

\* C10: the year blocks of the report are in ascending year order, one per
\* year; a horizontal rule follows every year block but the last, and none
\* follows the last one (n years give n - 1 rules, one year gives none).
C10_YearBlocksAndRules ==
    HasReport =>
        \A headings \in {YearHeadings(report)}, rules \in {Rules(report)} :
           LET year(i) == SubSeq(report, i + 2, i + 5)
           IN /\ {year(i) : i \in headings} = DecodableYears(image_filenames)
              /\ \A i, j \in headings : i < j => StrLess(year(i), year(j))
              /\ \A i, j \in headings :
                    (i < j /\ ~\E k \in headings : i < k /\ k < j) =>
                        Cardinality({r \in rules : i < r /\ r < j}) = 1
              /\ \A r \in rules :
                    /\ \E i \in headings : i < r
                    /\ \E j \in headings : r < j
              /\ headings # {} => Cardinality(rules) = Cardinality(headings) - 1
              /\ headings = {} => rules = {}

C10_Witness ==
    /\ HasReport
    /\ Cardinality(YearHeadings(report)) = 2
    /\ Cardinality(Rules(report)) = 1
    /\ \E r \in Rules(report) : \E i, j \in YearHeadings(report) : i < r /\ r < j

(***************************************************************************)
(* The three operations applied to the files of one year: a file for each  *)
(* month of a set of months of 2020, few months or all but a few, given    *)
(* from the last month to the first; before them, possibly, a file of      *)
(* March 2020 that does not decode and a file of another year.             *)
(***************************************************************************)
MaxPresentMonths == 2

MaxAbsentMonths == 2

MonthFile(m) ==
    F(LC08, L2SP, <<"2", "0", "2", "0", DigitChar(m \div 10), DigitChar(m % 10), "1", "5">>,
      D20210320, T1, SR, B4)

UndecodableMarchFile ==
    F(LC08, L2SP, <<"2", "0", "2", "0", "0", "3", "1", "5">>, D20210320, T1,
      <<"Q", "A">>, B4)

MonthSets ==
    {S \in SUBSET (1..12) : \/ Cardinality(S) <= MaxPresentMonths
                            \/ Cardinality(S) >= 12 - MaxAbsentMonths}

MonthFiles(S) ==
    [i \in 1..Cardinality(S) |->
        MonthFile(CHOOSE m \in S : Cardinality({k \in S : k > m}) = i - 1)]

OtherFiles ==
    {<<>>,
     <<UndecodableMarchFile>>,
     <<F(LC08, L2SR, D20210310, D20210320, T2, SR, B4)>>,
     <<UndecodableMarchFile, F(LC08, L2SR, D20210310, D20210320, T2, SR, B4)>>}

InitYear ==
    /\ pc = "start"
    /\ image_filenames \in {o \o MonthFiles(S) : o \in OtherFiles, S \in MonthSets}
    /\ parts = None
    /\ filename = None
    /\ details = None
    /\ landsat_images_data = None
    /\ report = None
    /\ image_directory = None
    /\ image_paths = None
    /\ HandlersNotRun

SpecYear == InitYear /\ [][Next]_vars

MissingMonthsLineAt(text, i) ==
    /\ LineStart(text, i)
    /\ i + Len(MissingMonthsLabel) - 1 <= Len(text)
    /\ SubSeq(text, i, i + Len(MissingMonthsLabel) - 1) = MissingMonthsLabel

\* The position of the newline that ends the line that starts at i.
LineEnd(text, i) ==
    CHOOSE e \in i..Len(text) : text[e] = NL /\ \A j \in i..(e - 1) : text[j] # NL

\* The two-character tokens of a line "01, 02, 05".
MonthsOfLine(line) ==
    [k \in 1..((Len(line) + 2) \div 4) |-> SubSeq(line, 4 * k - 3, 4 * k - 2)]

\* The months of the year in which a filename of the list decodes.
DecodedMonths(decoded, year) ==
    {SubSeq(decoded[i].acquisition_date, 5, 6) :
        i \in {j \in DOMAIN decoded :
                 decoded[j] # None /\ SubSeq(decoded[j].acquisition_date, 1, 4) = year}}

\* C11: in each year block of the report the "Missing Months" line is the
\* line after the year heading and lists, in ascending order, exactly the
\* months 01..12 in which no file of that year decoded; the block has no
\* such line if and only if all twelve months are present in the year.
C11_MissingMonthsLine ==
    HasReport =>
        \A headings \in {YearHeadings(report)}, decoded \in {Decoded(image_filenames)} :
           \A h \in headings :
              LET next == {j \in headings : j > h}
                  last == IF next = {} THEN Len(report)
                          ELSE (CHOOSE j \in next : \A k \in next : j <= k) - 1
                  lines == {i \in h..last : MissingMonthsLineAt(report, i)}
                  missing == TwelveMonths \ DecodedMonths(decoded, SubSeq(report, h + 2, h + 5))
              IN /\ lines = {} <=> missing = {}
                 /\ lines # {} =>
                      /\ lines = {h + 9}
                      /\ LET from == h + 9 + Len(MissingMonthsLabel)
                             line == SubSeq(report, from, LineEnd(report, from) - 1)
                         IN /\ Join(MonthsOfLine(line), <<",", " ">>) = line
                            /\ StrictlyAscending(MonthsOfLine(line))
                            /\ Range(MonthsOfLine(line)) = missing

C11_Witness ==
    /\ HasReport
    /\ Cardinality(YearHeadings(report)) = 1
    /\ DecodedMonths(Decoded(image_filenames), <<"2", "0", "2", "0">>) = TwelveMonths
    /\ {i \in 1..Len(report) : MissingMonthsLineAt(report, i)} = {}

(***************************************************************************)
(* Further properties of the aggregate and the report over the lists of    *)
(* filenames.                                                              *)
(***************************************************************************)
YearKeys(data) == [i \in 1..Len(data) |-> data[i][1]]

\* organize_satellite_data_json has just returned landsat_images_data.
JsonReturned == pc = "json"

\* C12: the year keys of the returned mapping are iterated in strictly
\* ascending order, whatever the order of the input, and are exactly the
\* years acquisition_date[0:4] of the filenames that decode.
C12_YearKeysAscending ==
    JsonReturned =>
        /\ StrictlyAscending(YearKeys(landsat_images_data))
        /\ Range(YearKeys(landsat_images_data)) = DecodableYears(image_filenames)

C12_Witness ==
    /\ Returned
    /\ Len(image_filenames) >= 2
    /\ image_filenames[1] = F(LC08, L2SR, D20210310, D20210320, T2, SR, B4)
    /\ image_filenames[2] = F(LC08, L2SP, D20200115, D20200120, T1, SR, B4)
    /\ YearKeys(landsat_images_data) = <<<<"2", "0", "2", "0">>, <<"2", "0", "2", "1">>>>

\* The acquisition tuples of the decoded filenames of a year.
KeysOfYear(decoded, year) ==
    {KeyOf(decoded[i]) :
        i \in {j \in DOMAIN decoded :
                 decoded[j] # None /\ SubSeq(decoded[j].acquisition_date, 1, 4) = year}}

\* C13: for every year, values holds exactly one record per distinct
\* (satellite, wrs, acquisition_date, processing_date) of the year's
\* filenames that decode, none twice and none lost, and the records are in
\* non-decreasing order of acquisition_date.
C13_OneRecordPerTupleInDateOrder ==
    JsonReturned =>
        \A decoded \in {Decoded(image_filenames)} :
           \A y \in 1..Len(landsat_images_data) :
              LET values == landsat_images_data[y][2].values
                  keys == KeysOfYear(decoded, landsat_images_data[y][1])
              IN /\ {KeyOf(values[j]) : j \in 1..Len(values)} = keys
                 /\ Len(values) = Cardinality(keys)
                 /\ \A j \in 1..(Len(values) - 1) :
                       ~StrLess(values[j + 1].acquisition_date, values[j].acquisition_date)

C13_Witness ==
    /\ Returned
    /\ Len(image_filenames) = 3
    /\ image_filenames[1] = F(LC08, L2SP, D20200620, D20200701, T1, SR, B4)
    /\ image_filenames[2] = F(LC08, L2SP, D20200115, D20200120, T1, SR, B4)
    /\ image_filenames[3] = F(LC08, L2SP, D20200620, D20200701, T1, SR, B4)
    /\ Len(landsat_images_data) = 1
    /\ Len(landsat_images_data[1][2].values) = 2
    /\ landsat_images_data[1][2].values[1].acquisition_date = D20200115
    /\ landsat_images_data[1][2].values[2].acquisition_date = D20200620

\* C14: every collection built by set accumulation is emitted sorted: in
\* every year satellites, correction_level, collection_number and
\* collection_category are in ascending order, and so are the bands of every
\* record and missing_months.
C14_SetCollectionsSorted ==
    Returned =>
        \A y \in 1..Len(landsat_images_data) :
           LET aggregate == landsat_images_data[y][2]
           IN /\ StrictlyAscending(aggregate.satellites)
              /\ StrictlyAscending(aggregate.correction_level)
              /\ StrictlyAscending(aggregate.collection_number)
              /\ StrictlyAscending(aggregate.collection_category)
              /\ StrictlyAscending(aggregate.missing_months)
              /\ \A j \in 1..Len(aggregate.values) :
                    StrictlyAscending(aggregate.values[j].bands)

\* What holds of the collections the code sorts: bands and missing_months.
C14_BandsAndMissingMonthsSorted ==
    Returned =>
        \A y \in 1..Len(landsat_images_data) :
           /\ StrictlyAscending(landsat_images_data[y][2].missing_months)
           /\ \A j \in 1..Len(landsat_images_data[y][2].values) :
                 StrictlyAscending(landsat_images_data[y][2].values[j].bands)

does_decode(name) == decode_satellite_filename(name) # None

\* The list without the filenames that do not decode.
WithoutUndecodable(names) == SelectSeq(names, does_decode)

\* C15: a filename that does not decode contributes to no result: when
\* organize_satellite_data_json has returned, what it returned is a result
\* of the same list with the filenames that do not decode removed, and the
\* two lists have the same possible results; when
\* organize_satellite_data_txt has returned, the report is the report of
\* the list with those filenames removed.
C15_UndecodableFilenamesExcluded ==
    \A decodable \in {WithoutUndecodable(image_filenames)} :
        /\ pc = "json" =>
              \A results \in {organize_satellite_data_json(decodable)} :
                 /\ landsat_images_data \in results
                 /\ results = organize_satellite_data_json(image_filenames)
        /\ pc = "txt" => report = organize_satellite_data_txt(decodable)

C15_Witness ==
    /\ pc = "txt"
    /\ image_filenames = <<F(LC08, L2SP, D20200115, D20200120, T1, SR, B4),
                           Build(NotAValidFilename),
                           F(LC08, L2SR, D20210310, D20210320, T2, SR, B4)>>
    /\ Len(landsat_images_data) = 2
    /\ Cardinality(YearHeadings(report)) = 2

\* The values of a field in the decoded filenames of a year.
FieldValues(decoded, year, field) ==
    {decoded[i][field] :
        i \in {j \in DOMAIN decoded :
                 decoded[j] # None /\ SubSeq(decoded[j].acquisition_date, 1, 4) = year}}

SetFields == {"satellites", "correction_level", "collection_number", "collection_category"}

FieldOf(collection) == IF collection = "satellites" THEN "satellite" ELSE collection

\* C16: for every year, satellites, correction_level, collection_number and
\* collection_category hold exactly the distinct values of their field in
\* the year's filenames that decode, each once, and satellites is the set of
\* the satellite values of the year's records.
C16_DistinctFieldValuesPerYear ==
    JsonReturned =>
        \A decoded \in {Decoded(image_filenames)} :
           \A y \in 1..Len(landsat_images_data) :
              LET aggregate == landsat_images_data[y][2]
              IN /\ \A c \in SetFields :
                       /\ Range(aggregate[c])
                             = FieldValues(decoded, landsat_images_data[y][1], FieldOf(c))
                       /\ Len(aggregate[c]) = Cardinality(Range(aggregate[c]))
                 /\ Range(aggregate.satellites)
                       = {aggregate.values[j].satellite : j \in 1..Len(aggregate.values)}

C16_Witness ==
    /\ Returned
    /\ Len(landsat_images_data) = 1
    /\ Len(landsat_images_data[1][2].satellites) = 2
    /\ Len(landsat_images_data[1][2].correction_level) = 2
    /\ Len(landsat_images_data[1][2].collection_number) = 1
    /\ Len(image_filenames) = 3

\* C17: on the empty list, and on a list none of whose filenames decodes,
\* the aggregate is a mapping without years, the report is the header alone,
\* with no year block and no rule, and the paths of the empty mapping are
\* the empty list.
C17_EmptyInputEmptyResult ==
    /\ (JsonReturned /\ Decodable(image_filenames) = {}) => landsat_images_data = <<>>
    /\ (pc = "txt" /\ Decodable(image_filenames) = {}) =>
          /\ report = ReportTitle \o ReportIntroduction
          /\ YearHeadings(report) = {}
          /\ Rules(report) = {}
    /\ (pc = "paths" /\ landsat_images_data = <<>>) => image_paths = <<>>

C17_Witness ==
    /\ pc = "paths"
    /\ image_filenames = <<>>
    /\ landsat_images_data = <<>>
    /\ image_paths = <<>>
    /\ report # None

C17_WitnessNoneDecodes ==
    /\ pc = "paths"
    /\ Len(image_filenames) = 2
    /\ Decodable(image_filenames) = {}
    /\ image_paths = <<>>

(***************************************************************************)
(* process_satellite_images_metadata, run any number of times on a source  *)
(* directory whose contents change between the runs.  The metadata file    *)
(* holds the mapping that json.dumps wrote, the report file the report.    *)
(***************************************************************************)
MaxEntries == 2

endswith(s, suffix) ==
    /\ Len(suffix) <= Len(s)
    /\ SubSeq(s, Len(s) - Len(suffix) + 1, Len(s)) = suffix

\* file.endswith(f".{ORIGINAL_DATASET_IMAGE_EXTENSION}")
is_any_file(file) == TRUE

is_image_file(file) == endswith(file, <<".">> \o ORIGINAL_DATASET_IMAGE_EXTENSION)

\* open(path, "w") and file.write(data): the file is created or truncated.
write_appending(file, data) == File(file.contents \o data)

write(file, data) == File(data)

\* The entries a source directory is filled from: two images of the same
\* acquisition date, a name with another extension and a name with the
\* image extension that does not decode.
DatasetPool ==
    {F(LC08, L2SP, D20200115, D20200120, T1, SR, B4),
     F(LE07, L2SP, D20200115, D20200120, T1, SR, B4),
     Build([pre |-> <<>>,
            fields |-> <<LC08, L2SP, <<"1", "2", "3", "0", "4", "5">>, D20200620,
                         D20200701, <<"0", "2">>, T1, SR>>,
            band_tokens |-> <<B4>>, ext |-> <<".", "t", "i", "f">>, post |-> <<>>]),
     Build(NotAValidFilename)}

\* os.listdir: the entries of a directory, each once, in arbitrary order.
Listings ==
    UNION {{q \in [1..n -> DatasetPool] : \A i, j \in 1..n : q[i] = q[j] => i = j} :
              n \in 0..MaxEntries}

InitMetadata ==
    /\ pc = "idle"
    /\ original_dataset \in Listings
    /\ metadata_file = Absent
    /\ report_file = Absent
    /\ exit_status = 0
    /\ core_calls = {}
    /\ parts = None
    /\ filename = None
    /\ details = None
    /\ image_filenames = None
    /\ landsat_images_data = None
    /\ report = None
    /\ image_directory = None
    /\ image_paths = None
    /\ output_files = {}
    /\ printed = <<>>
    /\ raised = NoException
    /\ NoProducts

\* Files are added to or removed from the source directory.
ChangeDirectory ==
    /\ original_dataset' \in Listings \ {original_dataset}
    /\ pc' = "changed"
    /\ UNCHANGED <<parts, filename, details, image_filenames, landsat_images_data,
                   report, image_directory, image_paths, metadata_file, report_file,
                   exit_status, core_calls, output_files, printed, raised,
                   product_vars>>

ProcessSatelliteImagesMetadata ==
    /\ pc \in {"idle", "changed", "ran"}
    /\ image_filenames' = SelectSeq(original_dataset, is_image_file)
    /\ IF image_filenames' = <<>>
       THEN /\ exit_status' = 1
            /\ core_calls' = {}
            /\ landsat_images_data' = None
            /\ report' = None
            /\ UNCHANGED <<metadata_file, report_file>>
       ELSE /\ landsat_images_data' \in organize_satellite_data_json(image_filenames')
            /\ metadata_file' = write(metadata_file, landsat_images_data')
            /\ report' = organize_satellite_data_txt(image_filenames')
            /\ report_file' = write(report_file, report')
            /\ exit_status' = 0
            /\ core_calls' = {"organize_satellite_data_json",
                              "organize_satellite_data_txt"}
    /\ pc' = "ran"
    /\ UNCHANGED <<parts, filename, details, image_directory, image_paths,
                   original_dataset, output_files, printed, raised, product_vars>>

NextMetadata == ChangeDirectory \/ ProcessSatelliteImagesMetadata

SpecMetadata == InitMetadata /\ [][NextMetadata]_vars

\* The entries of a listing that carry the image extension ".TIF".
ImagesOf(listing) ==
    LET ends_in_TIF(file) ==
            /\ Len(file) >= 4
            /\ file[Len(file) - 3] = "." /\ file[Len(file) - 2] = "T"
            /\ file[Len(file) - 1] = "I" /\ file[Len(file)] = "F"
    IN SelectSeq(listing, ends_in_TIF)

\* C18: when the source directory holds no file with the image extension,
\* a run of process_satellite_images_metadata exits with status 1, calls
\* neither organize_satellite_data_json nor organize_satellite_data_txt, and
\* neither creates nor changes the metadata file and the report file.
C18_HaltsBeforeCoreOnEmptyDataset ==
    [][(ProcessSatelliteImagesMetadata /\ ImagesOf(original_dataset) = <<>>) =>
          /\ exit_status' = 1
          /\ core_calls' = {}
          /\ metadata_file' = metadata_file
          /\ report_file' = report_file]_vars

C18_Witness ==
    /\ pc = "ran"
    /\ original_dataset # <<>>
    /\ ImagesOf(original_dataset) = <<>>
    /\ exit_status = 1
    /\ core_calls = {}
    /\ metadata_file # Absent
    /\ report_file # Absent

C18_WitnessNoFileCreated ==
    /\ pc = "ran"
    /\ ImagesOf(original_dataset) = <<>>
    /\ exit_status = 1
    /\ metadata_file = Absent
    /\ report_file = Absent

\* C19: after any changes of the source directory followed by a run, the
\* metadata file and the report file are what the current contents of the
\* directory give, and nothing of an earlier run remains in them, also when
\* the directory was emptied before the run: each file holds the result of
\* the core for the image files now in the directory or, when there is
\* none, at most an empty result.
C19_OutputsRegeneratedOnEveryRun ==
    pc = "ran" =>
        \A images \in {ImagesOf(original_dataset)} :
           /\ (metadata_file.exists \/ images # <<>>) =>
                 /\ metadata_file.exists
                 /\ metadata_file.contents \in organize_satellite_data_json(images)
           /\ (report_file.exists \/ images # <<>>) =>
                 report_file = File(organize_satellite_data_txt(images))

\* C19 amended: a run that finds at least one file with the image extension
\* regenerates both files from the current listing of the directory alone;
\* a run that finds none exits with status 1 and leaves both files as they
\* were.
C19_OutputsRegeneratedByCompletedRun ==
    /\ [](pc = "ran" =>
            \A images \in {ImagesOf(original_dataset)} :
               IF images # <<>>
               THEN /\ exit_status = 0
                    /\ metadata_file.exists
                    /\ metadata_file.contents \in organize_satellite_data_json(images)
                    /\ report_file = File(organize_satellite_data_txt(images))
               ELSE exit_status = 1)
    /\ [][(ProcessSatelliteImagesMetadata /\ ImagesOf(original_dataset) = <<>>) =>
             UNCHANGED <<metadata_file, report_file>>]_vars

C19_Witness ==
    /\ pc = "ran"
    /\ exit_status = 0
    /\ Len(ImagesOf(original_dataset)) = 1
    /\ Len(original_dataset) = 2
    /\ report_file = File(organize_satellite_data_txt(ImagesOf(original_dataset)))
    /\ metadata_file.exists
    /\ Len(metadata_file.contents) = 1
    /\ metadata_file.contents[1][2].satellites = <<LE07>>

(***************************************************************************)
(* clip_images_by_shapefile_geometries: each image of the list that exists *)
(* is clipped and written to the output directory under a custom filename. *)
(* Reading the shapefile and the image, and the clipping itself, are taken *)
(* to succeed.                                                             *)
(***************************************************************************)
MaxPaths == 3

CROPPED == <<"C", "R", "O", "P", "P", "E", "D">>

\* create_custom_filename(details=d, ...): d["acquisition_date"] raises
\* TypeError when d is None.
create_custom_filename(d, suffix, extension) ==
    IF d = None THEN TypeError
    ELSE d.acquisition_date \o <<"_">> \o d.wrs \o <<"_">>
         \o d.surface \o <<"_">> \o d.band \o <<"_">> \o suffix
         \o <<".">> \o extension

output_directory == <<"/", "o">>

\* The image paths of the lists; the image of the last one is not on disk.
ClipPathPool ==
    {<<"/", "d", "/">> \o name :
        name \in {F(LC08, L2SP, D20200115, D20200120, T1, SR, B4),
                  F(LC08, L2SP, D20200115, D20200120, T1, ST, B10),
                  Build(NotAValidFilename),
                  F(LC08, L2SP, D20200115, D20200120, T1, SR, B4) \o <<NL>>,
                  F(LC08, L2SP, D20200620, D20200701, T1, SR, B4)}}

MaxSceneBands == 7

\* The file of band k of the example acquisition.
SceneFile(k) ==
    F(LC08, L2SP, D20200115, D20200120, T1, SR, <<"B", DigitChar(k)>>)

ORIGINAL_DATASET_PATH == <<"/", "d">>

ImagesOnDisk ==
    (ClipPathPool \ {<<"/", "d", "/">> \o F(LC08, L2SP, D20200620, D20200701, T1, SR, B4)})
    \cup {path_join(ORIGINAL_DATASET_PATH, SceneFile(k)) : k \in 1..MaxSceneBands}

\* os.path.exists(image_path)
path_exists(image_path) == image_path \in ImagesOnDisk

ImageNotFound(image_path) == <<"Image not found: ", image_path>>

CouldNotExtract(name) == <<"Could not extract information from: ", name>>

\* The end of one pass of the loop: the output file is opened under the
\* new filename and written, unless making the filename raised.
clip_write(state, new_filename) ==
    IF new_filename = TypeError
    THEN [state EXCEPT !.raised = TypeError]
    ELSE [state EXCEPT !.output_files = @ \cup {path_join(output_directory, new_filename)}]

\* One pass of the loop for an image that exists: when its name does not
\* decode a message is printed, and the pass goes on to make the filename.
clip_decoded(state, name, old_filename_group) ==
    clip_write(IF old_filename_group = None
               THEN [state EXCEPT !.printed = Append(@, CouldNotExtract(name))]
               ELSE state,
               create_custom_filename(old_filename_group, CROPPED,
                                      ORIGINAL_DATASET_IMAGE_EXTENSION))

\* One pass of the loop; after an exception there are no more passes.
clip_image(state, image_path, name) ==
    IF state.raised # NoException THEN state
    ELSE IF ~path_exists(image_path)
         THEN [state EXCEPT !.printed = Append(@, ImageNotFound(image_path))]
         ELSE clip_decoded(state, name, decode_satellite_filename(name))

\* The loop over the first n paths.
RECURSIVE clipped(_, _)
clipped(paths, n) ==
    IF n = 0 THEN [output_files |-> {}, printed |-> <<>>, raised |-> NoException]
    ELSE clip_image(clipped(paths, n - 1), paths[n], Basename(paths[n]))

InitClip ==
    /\ pc = "start"
    /\ image_paths \in UNION {[1..n -> ClipPathPool] : n \in 0..MaxPaths}
    /\ parts = None
    /\ filename = None
    /\ details = None
    /\ image_filenames = None
    /\ landsat_images_data = None
    /\ report = None
    /\ image_directory = None
    /\ HandlersNotRun

ClipImagesByShapefileGeometries ==
    /\ pc = "start"
    /\ \E result \in {clipped(image_paths, Len(image_paths))} :
          /\ output_files' = result.output_files
          /\ printed' = result.printed
          /\ raised' = result.raised
    /\ pc' = "clipped"
    /\ UNCHANGED <<parts, filename, details, image_filenames, landsat_images_data,
                   report, image_directory, image_paths, original_dataset,
                   metadata_file, report_file, exit_status, core_calls,
                   product_vars>>

NextClip == ClipImagesByShapefileGeometries

SpecClip == InitClip /\ [][NextClip]_vars

\* The paths of a list that exist, by whether their basename decodes.
ExistingDecodable(paths) ==
    {i \in 1..Len(paths) :
        path_exists(paths[i]) /\ decode_satellite_filename(Basename(paths[i])) # None}

ExistingUndecodable(paths) ==
    {i \in 1..Len(paths) :
        path_exists(paths[i]) /\ decode_satellite_filename(Basename(paths[i])) = None}

\* The file a decodable image is clipped to.
ClippedFile(image_path) ==
    output_directory \o <<"/">>
    \o create_custom_filename(decode_satellite_filename(Basename(image_path)), CROPPED,
                              <<"T", "I", "F">>)

\* C20: a path whose basename does not decode is logged and skipped, with
\* no exception and no output file for it, and every other path of the list
\* is still clipped.
C20_UndecodablePathSkipped ==
    pc = "clipped" =>
        /\ raised = NoException
        /\ \A i \in ExistingUndecodable(image_paths) :
              \E k \in 1..Len(printed) :
                  printed[k] = CouldNotExtract(Basename(image_paths[i]))
        /\ output_files = {ClippedFile(image_paths[i]) : i \in ExistingDecodable(image_paths)}

\* What the code does: the first existing path whose basename does not
\* decode is logged and ends the call with TypeError; the paths before it
\* are clipped, the paths after it are not.
C20_FirstUndecodablePathEndsTheCall ==
    pc = "clipped" =>
        \A bad \in {ExistingUndecodable(image_paths)} :
           IF bad = {}
           THEN /\ raised = NoException
                /\ output_files =
                     {ClippedFile(image_paths[i]) : i \in ExistingDecodable(image_paths)}
           ELSE /\ raised = TypeError
                /\ output_files =
                     {ClippedFile(image_paths[i]) :
                         i \in {j \in ExistingDecodable(image_paths) :
                                  \A b \in bad : j < b}}
                /\ Cardinality({k \in 1..Len(printed) :
                                   printed[k][1] = CouldNotExtract(<<>>)[1]}) = 1

(***************************************************************************)
(* The lines of the report below the year headings: the month headings     *)
(* "MM" and the band lines "(band) - file1, file2".                        *)
(***************************************************************************)
MonthHeadingAt(text, i) ==
    /\ LineStart(text, i)
    /\ i + 2 <= Len(text)
    /\ text[i] \in AsciiDigits
    /\ text[i + 1] \in AsciiDigits
    /\ text[i + 2] = NL

BandLineAt(text, i) == LineStart(text, i) /\ text[i] = "("

MonthHeadings(text) == {i \in 1..Len(text) : MonthHeadingAt(text, i)}

BandLines(text) == {i \in 1..Len(text) : BandLineAt(text, i)}

YearAt(text, h) == SubSeq(text, h + 2, h + 5)

MonthAt(text, m) == SubSeq(text, m, m + 1)

\* The band name of the band line that starts at b: the text between the
\* opening parenthesis and the first closing one.
BandAt(text, b) ==
    SubSeq(text, b + 1,
           (CHOOSE e \in b..Len(text) :
                text[e] = ")" /\ \A j \in b..(e - 1) : text[j] # ")") - 1)

\* The last position of S before i.
Previous(S, i) == CHOOSE p \in S : p < i /\ \A q \in S : q < i => q <= p

\* The bands of the filenames of the list that decode to the year and month.
DecodedBands(decoded, year, month) ==
    {decoded[i].band :
        i \in {j \in DOMAIN decoded :
                 /\ decoded[j] # None
                 /\ SubSeq(decoded[j].acquisition_date, 1, 4) = year
                 /\ SubSeq(decoded[j].acquisition_date, 5, 6) = month}}

\* The (year, month, band) keys of the filenames of the list that decode.
DecodedKeys(decoded) ==
    {<<SubSeq(decoded[i].acquisition_date, 1, 4),
       SubSeq(decoded[i].acquisition_date, 5, 6), decoded[i].band>> :
        i \in {j \in DOMAIN decoded : decoded[j] # None}}

\* The filenames of the list that decode to the key, as often and in the
\* order in which the list has them.
FilesOf(names, key) ==
    LET has_key(name) ==
            \E d \in {decode_satellite_filename(name)} :
               /\ d # None
               /\ SubSeq(d.acquisition_date, 1, 4) = key[1]
               /\ SubSeq(d.acquisition_date, 5, 6) = key[2]
               /\ d.band = key[3]
    IN SelectSeq(names, has_key)

StartsWithAt(text, i, prefix) ==
    /\ i + Len(prefix) - 1 <= Len(text)
    /\ SubSeq(text, i, i + Len(prefix) - 1) = prefix

\* The key of the band line that starts at b; every band line has a month
\* heading and a year heading before it.
KeyOfLine(text, headings, months, b) ==
    <<YearAt(text, Previous(headings, b)), MonthAt(text, Previous(months, b)),
      BandAt(text, b)>>

\* C21: the report keeps the filenames verbatim and does not deduplicate
\* them: the line of each (year, month, band) lists, separated by ", ",
\* every decodable filename of the input with that key exactly as given, as
\* many times and in the order in which the input list has it, and there is
\* one such line for every key.
C21_FilenamesVerbatimInInputOrder ==
    pc = "txt" =>
        \A headings \in {YearHeadings(report)}, months \in {MonthHeadings(report)},
           lines \in {BandLines(report)} :
           /\ \A b \in lines :
                 /\ \E h \in headings : h < b
                 /\ \E m \in months : m < b
                 /\ \A key \in {KeyOfLine(report, headings, months, b)} :
                       StartsWithAt(report, b,
                           <<"(">> \o key[3] \o <<")", " ", "-", " ">>
                           \o Join(FilesOf(image_filenames, key), <<",", " ">>)
                           \o <<NL>>)
           /\ {KeyOfLine(report, headings, months, b) : b \in lines}
                 = DecodedKeys(Decoded(image_filenames))
           /\ Cardinality(lines) = Cardinality(DecodedKeys(Decoded(image_filenames)))

\* A filename twice in the list with another filename of the same year,
\* month and band between the two.
C21_Witness ==
    /\ pc = "txt"
    /\ Len(image_filenames) = 3
    /\ image_filenames[1] = image_filenames[3]
    /\ image_filenames[1] # image_filenames[2]
    /\ Cardinality(DecodedKeys(Decoded(image_filenames))) = 1
    /\ Decodable(image_filenames) = {1, 2, 3}
    /\ \E b \in BandLines(report) :
          StartsWithAt(report, b,
              <<"(", "B", "4", ")", " ", "-", " ">>
              \o image_filenames[1] \o <<",", " ">> \o image_filenames[2]
              \o <<",", " ">> \o image_filenames[3] \o <<NL>>)

\* C22: in each year block of the report there is exactly one subsection
\* per month in which a file of the year decoded, the subsections are in
\* ascending month order, and the band lines of a subsection are in
\* ascending order of band name, one line per distinct band of the month.
C22_MonthsAndBandsAscending ==
    pc = "txt" =>
        \A headings \in {YearHeadings(report)}, months \in {MonthHeadings(report)},
           lines \in {BandLines(report)}, decoded \in {Decoded(image_filenames)} :
           /\ \A h \in headings :
                 \A in_block \in {{m \in months :
                                     h < m /\ ~\E k \in headings : h < k /\ k < m}} :
                    /\ \A m, n \in in_block :
                          m < n => StrLess(MonthAt(report, m), MonthAt(report, n))
                    /\ {MonthAt(report, m) : m \in in_block}
                          = DecodedMonths(decoded, YearAt(report, h))
                    /\ \A m \in in_block :
                          \A of_month \in {{b \in lines :
                                 m < b /\ ~\E k \in headings \cup months : m < k /\ k < b}} :
                             /\ \A a, b \in of_month :
                                   a < b => StrLess(BandAt(report, a), BandAt(report, b))
                             /\ {BandAt(report, b) : b \in of_month}
                                   = DecodedBands(decoded, YearAt(report, h),
                                                  MonthAt(report, m))
           /\ \A m \in months : \E h \in headings : h < m
           /\ \A b \in lines :
                 \E m \in months : m < b /\ ~\E h \in headings : m < h /\ h < b

\* Two months of one year, the earlier one with two bands, given with the
\* later month and the later band first.
C22_Witness ==
    /\ pc = "txt"
    /\ Cardinality(YearHeadings(report)) = 1
    /\ Cardinality(MonthHeadings(report)) = 2
    /\ Cardinality(BandLines(report)) = 3
    /\ decode_satellite_filename(image_filenames[1]) # None
    /\ decode_satellite_filename(image_filenames[1]).acquisition_date = D20200620
    /\ decode_satellite_filename(image_filenames[2]) # None
    /\ decode_satellite_filename(image_filenames[2]).band = B4
    /\ decode_satellite_filename(image_filenames[3]) # None
    /\ decode_satellite_filename(image_filenames[3]).band = B10

(***************************************************************************)
(* Properties of the synthesized paths.                                    *)
(***************************************************************************)
\* The (year, group, band) positions of the mapping.
BandPositions(data) ==
    UNION {UNION {{<<y, g, b>> : b \in 1..Len(data[y][2].values[g].bands)} :
                     g \in 1..Len(data[y][2].values)} :
              y \in 1..Len(data)}

Before(t, u) ==
    \/ t[1] < u[1]
    \/ t[1] = u[1] /\ t[2] < u[2]
    \/ t[1] = u[1] /\ t[2] = u[2] /\ t[3] < u[3]

RECURSIVE SumOfBands(_, _, _)
SumOfBands(data, y, g) ==
    IF y = 0 THEN 0
    ELSE IF g = 0
         THEN IF y = 1 THEN 0
              ELSE SumOfBands(data, y - 1, Len(data[y - 1][2].values))
         ELSE Len(data[y][2].values[g].bands) + SumOfBands(data, y, g - 1)

TotalBands(data) ==
    IF data = <<>> THEN 0 ELSE SumOfBands(data, Len(data), Len(data[Len(data)][2].values))

Underscore == <<"_">>

\* C23: the paths are one per (year, group, band token) of the aggregate,
\* in the order of the years, then of the groups in values, then of the
\* tokens in bands; the path of a position is the directory joined with
\* satellite_correctionlevel_wrs_acquisitiondate_processingdate_
\* collectionnumber_collectioncategory_bandtoken.TIF, and the number of paths
\* is the sum of the lengths of the bands lists.
C23_OnePathPerBandInOrder ==
    pc = "paths" =>
        \A positions \in {BandPositions(landsat_images_data)} :
           /\ Len(image_paths) = Cardinality(positions)
           /\ Len(image_paths) = TotalBands(landsat_images_data)
           /\ \A t \in positions :
                 \A image_data \in {landsat_images_data[t[1]][2]} :
                    \A value \in {image_data.values[t[2]]} :
                       image_paths[1 + Cardinality({u \in positions : Before(u, t)})]
                          = path_join(image_directory,
                                value.satellite \o Underscore
                                \o image_data.correction_level[1] \o Underscore
                                \o value.wrs \o Underscore
                                \o value.acquisition_date \o Underscore
                                \o value.processing_date \o Underscore
                                \o image_data.collection_number[1] \o Underscore
                                \o image_data.collection_category[1] \o Underscore
                                \o value.bands[t[3]] \o TIF)

\* Three paths: a year of two groups, or two years and a group of two bands.
C23_Witness ==
    /\ pc = "paths"
    /\ Len(image_paths) = 3
    /\ Len(landsat_images_data) = 1
    /\ Len(landsat_images_data[1][2].values) = 2
    /\ Len(landsat_images_data[1][2].values[1].bands) = 2
    /\ image_directory = <<"/", "d">>

C23_WitnessTwoYears ==
    /\ pc = "paths"
    /\ Len(image_paths) = 3
    /\ Len(landsat_images_data) = 2
    /\ Len(landsat_images_data[1][2].values[1].bands) = 2

(***************************************************************************)
(* The three operations applied to the files of one year that differ in    *)
(* correction level, collection number and collection category.            *)
(***************************************************************************)
MaxAmbiguous == 3

G(cl, ad, cn, cc, band) ==
    Build([pre |-> <<>>,
           fields |-> <<LC08, cl, <<"1", "2", "3", "0", "4", "5">>, ad, D20200701,
                        cn, cc, SR>>,
           band_tokens |-> <<band>>, ext |-> TIF, post |-> <<>>])

C01 == <<"0", "1">>
C02 == <<"0", "2">>

\* The example of the specification, the same file with another correction
\* level, collection number and collection category, a second acquisition of
\* the year with other values again, and a file of another year.
AmbiguousPool ==
    {G(L2SP, D20200115, C02, T1, B4),
     G(L2SR, D20200115, C02, T1, B4),
     G(L2SP, D20200115, C01, T1, B4),
     G(L2SP, D20200115, C02, T2, B4),
     G(L2SR, D20200620, C01, T2, B10),
     G(L2SR, D20210310, C02, T1, B4)}

InitAmbiguous ==
    /\ pc = "start"
    /\ image_filenames \in UNION {[1..n -> AmbiguousPool] : n \in 0..MaxAmbiguous}
    /\ parts = None
    /\ filename = None
    /\ details = None
    /\ landsat_images_data = None
    /\ report = None
    /\ image_directory = None
    /\ image_paths = None
    /\ HandlersNotRun

SpecAmbiguous == InitAmbiguous /\ [][Next]_vars

\* The aggregate of the year of a decoded filename.
YearEntry(data, d) ==
    data[CHOOSE y \in 1..Len(data) : data[y][1] = SubSeq(d.acquisition_date, 1, 4)][2]

HasFirstElements(image_data, d) ==
    /\ d.correction_level = image_data.correction_level[1]
    /\ d.collection_number = image_data.collection_number[1]
    /\ d.collection_category = image_data.collection_category[1]

\* C24: also when a year has more than one correction level, collection
\* number or collection category, create_satellite_images_paths raises no
\* error; every path of a year carries the first element of each of the
\* three lists of that year, and an input filename of the year that carries
\* another value is not among the paths.
C24_FirstElementsUsedForEveryPath ==
    pc = "paths" =>
        /\ raised = NoException
        /\ \A i \in 1..Len(image_paths) :
              \A d \in {decode_satellite_filename(Basename(image_paths[i]))} :
                 /\ d # None
                 /\ HasFirstElements(YearEntry(landsat_images_data, d), d)
        /\ \A j \in 1..Len(image_filenames) :
              \A d \in {decode_satellite_filename(image_filenames[j])} :
                 (d # None /\ ~HasFirstElements(YearEntry(landsat_images_data, d), d))
                    => \A i \in 1..Len(image_paths) :
                          Basename(image_paths[i]) # image_filenames[j]

\* A year with two correction levels, two collection numbers and two
\* collection categories, two paths, and no input filename among them.
C24_Witness ==
    /\ pc = "paths"
    /\ Len(landsat_images_data) = 1
    /\ Len(landsat_images_data[1][2].correction_level) = 2
    /\ Len(landsat_images_data[1][2].collection_number) = 2
    /\ Len(landsat_images_data[1][2].collection_category) = 2
    /\ Len(image_paths) = 2
    /\ \A i \in 1..Len(image_paths) :
          Basename(image_paths[i]) \notin Range(image_filenames)

(***************************************************************************)
(* The core operations called any number of times, in any order, within    *)
(* one process.  The order in which the process iterates a set of str is   *)
(* fixed when it starts.                                                   *)
(***************************************************************************)
MaxCalls == 3

HashSeeds == {0, 1}

\* list(a set) in a process with the seed: two of the orders list_of_set
\* allows, the ascending and the descending one.
list_of_set_in_process(S, seed) == IF seed = 0 THEN sorted(S) ELSE sorted_descending(S)

AggregateFields ==
    {"satellites", "correction_level", "collection_number", "collection_category"}

\* The value organize_satellite_data_json(names) returns in the process.
organize_satellite_data_json_in_process(names, seed) ==
    CHOOSE o \in organize_satellite_data_json(names) :
        \A y \in 1..Len(o) : \A field \in AggregateFields :
            o[y][2][field] = list_of_set_in_process(Range(o[y][2][field]), seed)

CallNames == {ExampleFilename, Build(NotAValidFilename)}

\* Two satellites and correction levels in one year; a name that does not
\* decode and a name given twice.
CallLists ==
    {<<F(LC08, L2SP, D20200115, D20200120, T1, SR, B4),
       F(LE07, L2SR, D20200115, D20200120, T1, SR, B4)>>,
     <<F(LE07, L2SR, D20200115, D20200120, T1, SR, B4),
       Build(NotAValidFilename),
       F(LE07, L2SR, D20200115, D20200120, T1, SR, B4)>>}

InitCalls ==
    /\ pc = "start"
    /\ hash_seed \in HashSeeds
    /\ calls = <<>>
    /\ parts = None
    /\ filename = None
    /\ details = None
    /\ image_filenames = None
    /\ landsat_images_data = None
    /\ report = None
    /\ image_directory = None
    /\ image_paths = None
    /\ original_dataset = <<>>
    /\ metadata_file = Absent
    /\ report_file = Absent
    /\ exit_status = 0
    /\ core_calls = {}
    /\ output_files = {}
    /\ printed = <<>>
    /\ raised = NoException
    /\ last_structured_data = <<>>
    /\ tags_file = Absent
    /\ product_filename = None
    /\ product_suffix = None
    /\ product_extension = None

Call(operation, argument, result) ==
    [operation |-> operation, argument |-> argument, result |-> result]

CallDecode ==
    /\ Len(calls) < MaxCalls
    /\ \E name \in CallNames :
          /\ filename' = name
          /\ details' = decode_satellite_filename(name)
          /\ calls' = Append(calls, Call("decode_satellite_filename", name, details'))
    /\ pc' = "called"
    /\ UNCHANGED <<parts, image_filenames, landsat_images_data, report,
                   image_directory, image_paths, handler_vars, hash_seed,
                   last_structured_data, tags_file, product_filename,
                   product_suffix, product_extension>>

CallOrganizeJson ==
    /\ Len(calls) < MaxCalls
    /\ \E names \in CallLists :
          /\ image_filenames' = names
          /\ landsat_images_data' =
                organize_satellite_data_json_in_process(names, hash_seed)
          /\ calls' = Append(calls, Call("organize_satellite_data_json", names,
                                         landsat_images_data'))
    /\ pc' = "called"
    /\ UNCHANGED <<parts, filename, details, report, image_directory, image_paths,
                   handler_vars, hash_seed, last_structured_data, tags_file,
                   product_filename, product_suffix, product_extension>>

CallOrganizeTxt ==
    /\ Len(calls) < MaxCalls
    /\ \E names \in CallLists :
          /\ image_filenames' = names
          /\ last_structured_data' = accumulated_txt(names, Len(names))
          /\ report' = organize_satellite_data_txt(names)
          /\ calls' = Append(calls, Call("organize_satellite_data_txt", names, report'))
    /\ pc' = "called"
    /\ UNCHANGED <<parts, filename, details, landsat_images_data, image_directory,
                   image_paths, handler_vars, hash_seed, tags_file,
                   product_filename, product_suffix, product_extension>>

CallCreatePaths ==
    /\ Len(calls) < MaxCalls
    /\ \E names \in CallLists :
          \E data \in {organize_satellite_data_json_in_process(names, hash_seed)} :
             /\ landsat_images_data' = data
             /\ image_directory' = <<"/", "d">>
             /\ IF first_elements_exist(data)
                THEN /\ image_paths' = create_satellite_images_paths(data, <<"/", "d">>)
                     /\ raised' = NoException
                ELSE /\ image_paths' = image_paths
                     /\ raised' = IndexError
             /\ calls' = Append(calls, Call("create_satellite_images_paths",
                                            <<data, <<"/", "d">>>>, image_paths'))
    /\ pc' = "called"
    /\ UNCHANGED <<parts, filename, details, image_filenames, report,
                   original_dataset, metadata_file, report_file, exit_status,
                   core_calls, output_files, printed, hash_seed,
                   last_structured_data, tags_file, product_filename,
                   product_suffix, product_extension>>

NextCalls == CallDecode \/ CallOrganizeJson \/ CallOrganizeTxt \/ CallCreatePaths

SpecCalls == InitCalls /\ [][NextCalls]_vars

\* The argument of the last call as the call left it.
ArgumentAfter(operation) ==
    IF operation = "decode_satellite_filename" THEN filename
    ELSE IF operation = "create_satellite_images_paths"
         THEN <<landsat_images_data, image_directory>>
         ELSE image_filenames

SceneAggregates ==
    UNION {organize_satellite_data_json(sorted({SceneFile(k) : k \in S})) :
              S \in SUBSET (1..MaxSceneBands)}

InitProcessAndClip ==
    /\ pc = "start"
    /\ metadata_file \in {Absent} \cup {File(a) : a \in SceneAggregates}
    /\ parts = None
    /\ filename = None
    /\ details = None
    /\ image_filenames = None
    /\ landsat_images_data = None
    /\ report = None
    /\ image_directory = None
    /\ image_paths = None
    /\ original_dataset = <<>>
    /\ report_file = Absent
    /\ exit_status = 0
    /\ core_calls = {}
    /\ output_files = {}
    /\ printed = <<>>
    /\ raised = NoException
    /\ NoProducts

ProcessAndClipLandsatImages ==
    /\ pc = "start"
    /\ IF ~metadata_file.exists
       THEN /\ raised' = FileNotFoundError
            /\ UNCHANGED <<landsat_images_data, image_directory, image_paths,
                           output_files, printed>>
       ELSE /\ landsat_images_data' = metadata_file.contents
            /\ image_directory' = ORIGINAL_DATASET_PATH
            /\ IF first_elements_exist(landsat_images_data')
               THEN /\ image_paths' = create_satellite_images_paths(
                                          landsat_images_data', ORIGINAL_DATASET_PATH)
                    /\ \E result \in {clipped(image_paths', Len(image_paths'))} :
                          /\ output_files' = result.output_files
                          /\ printed' = result.printed
                          /\ raised' = result.raised
               ELSE /\ raised' = IndexError
                    /\ UNCHANGED <<image_paths, output_files, printed>>
    /\ pc' = "clipped"
    /\ UNCHANGED <<parts, filename, details, image_filenames, report,
                   original_dataset, metadata_file, report_file, exit_status,
                   core_calls, product_vars>>

NextProcessAndClip == ProcessAndClipLandsatImages

SpecProcessAndClip == InitProcessAndClip /\ [][NextProcessAndClip]_vars

\* C26: process_and_clip_landsat_images clips only the first six of the
\* synthesized paths: at most six paths are passed to the clipping, and
\* every clipped file comes from one of the first six.
C26_OnlyFirstSixClipped ==
    (pc = "clipped" /\ raised = NoException) =>
        /\ Cardinality(output_files) + Len(printed) <= 6
        /\ \A i \in 1..Len(image_paths) :
              ClippedFile(image_paths[i]) \in output_files => i <= 6

\* What the code does: every synthesized path is passed to the clipping.
C26_EveryPathClipped ==
    (pc = "clipped" /\ raised = NoException) =>
        output_files = {ClippedFile(image_paths[i]) : i \in 1..Len(image_paths)}

(***************************************************************************)
(* get_and_add_snow_cover_percentage.  The region of interest and the      *)
(* binary images are taken as their pixel counts.                          *)
(***************************************************************************)
MaxBinaryImages == 2

Wrs123045 == <<"1", "2", "3", "0", "4", "5">>

BinaryImage(date, suffix) ==
    <<"/", "b", "/">> \o date \o <<"_">> \o Wrs123045 \o <<"_">> \o suffix
    \o <<".", "p", "n", "g">>

BINARY == <<"B", "I", "N", "A", "R", "Y">>

\* Two acquisitions, and a second image of the first one.
BinaryImagePool ==
    {BinaryImage(D20200115, BINARY), BinaryImage(D20200620, BINARY),
     BinaryImage(D20200115, <<"N", "D", "S", "I">>)}

\* np.sum(np.invert(roi_mask))
roi_pixels == 4

\* np.sum(binary_image == 255)
snow_pixels(image_path) ==
    IF image_path = BinaryImage(D20200115, BINARY) THEN 1
    ELSE IF image_path = BinaryImage(D20200620, BINARY) THEN 3
    ELSE 2

\* np.round((snow_pixels / roi_pixels) * 100, 2), in hundredths of a percent
\* (exact for the pixel counts above).
snow_cover_percentage(image_path) == (snow_pixels(image_path) * 10000) \div roi_pixels

\* "_".join(os.path.basename(image_path).split(".")[0].split("_")[0:2])
image_key(image_path) ==
    LET tokens == Split(Split(Basename(image_path), ".")[1], "_")
    IN Join(SubSeq(tokens, 1, IF Len(tokens) < 2 THEN Len(tokens) ELSE 2), <<"_">>)

\* results after the first n passes of the loop over sorted(image_paths)
RECURSIVE snow_cover_results(_, _)
snow_cover_results(paths, n) ==
    IF n = 0 THEN <<>>
    ELSE put(snow_cover_results(paths, n - 1), image_key(paths[n]),
             [snow_cover_per |-> snow_cover_percentage(paths[n])])

Key20200115 == D20200115 \o <<"_">> \o Wrs123045

Key20200620 == D20200620 \o <<"_">> \o Wrs123045

\* The data of the tags file before the call: empty, one or two images with
\* a temperature, an image that has a snow cover already.
TagsPool ==
    {<<>>,
     put(<<>>, Key20200115, [temperature_roi |-> 512]),
     put(put(<<>>, Key20200115, [temperature_roi |-> 512]),
         Key20200620, [temperature_roi |-> 1875]),
     put(<<>>, Key20200115, [temperature_roi |-> 512, snow_cover_per |-> 2500])}

\* os.makedirs(output_directory): a directory under the name of the file
DirectoryMade == [exists |-> TRUE, contents |-> <<>>, directory |-> TRUE]

InitSnowCover ==
    /\ pc = "start"
    /\ tags_file \in {Absent} \cup {File(data) : data \in TagsPool}
    /\ image_paths \in UNION {[1..n -> BinaryImagePool] : n \in 0..MaxBinaryImages}
    /\ calls = <<>>
    /\ hash_seed = 0
    /\ last_structured_data = <<>>
    /\ product_filename = None
    /\ product_suffix = None
    /\ product_extension = None
    /\ parts = None
    /\ filename = None
    /\ details = None
    /\ image_filenames = None
    /\ landsat_images_data = None
    /\ report = None
    /\ image_directory = None
    /\ original_dataset = <<>>
    /\ metadata_file = Absent
    /\ report_file = Absent
    /\ exit_status = 0
    /\ core_calls = {}
    /\ output_files = {}
    /\ printed = <<>>
    /\ raised = NoException

\* The file is read into landsat_images_data, results is filled in the loop
\* and dropped, and landsat_images_data is written back as it was read.
GetAndAddSnowCoverPercentage ==
    /\ pc = "start"
    /\ IF ~tags_file.exists
       THEN /\ tags_file' = DirectoryMade
            /\ raised' = IsADirectoryError
            /\ UNCHANGED landsat_images_data
       ELSE /\ landsat_images_data' = tags_file.contents
            /\ tags_file' = write(tags_file, landsat_images_data')
            /\ raised' = NoException
    /\ pc' = "tagged"
    /\ UNCHANGED <<parts, filename, details, image_filenames, report, image_directory,
                   image_paths, original_dataset, metadata_file, report_file,
                   exit_status, core_calls, output_files, printed, calls, hash_seed,
                   last_structured_data, product_filename, product_suffix,
                   product_extension>>

NextSnowCover == GetAndAddSnowCoverPercentage

SpecSnowCover == InitSnowCover /\ [][NextSnowCover]_vars

\* C27: after get_and_add_snow_cover_percentage has run on a list of binary
\* images, the tags file holds, for the key of every image of the list, a
\* snow_cover_per value, namely the percentage computed for it.
C27_SnowCoverAddedForEveryImage ==
    (pc = "tagged" /\ raised = NoException) =>
        \A results \in {snow_cover_results(sorted(Range(image_paths)),
                                           Cardinality(Range(image_paths)))} :
           \A key \in DOMAIN results :
              /\ key \in DOMAIN tags_file.contents
              /\ "snow_cover_per" \in DOMAIN tags_file.contents[key]
              /\ tags_file.contents[key].snow_cover_per = results[key].snow_cover_per

\* What the code does: the file is rewritten with the data it held.
C27_TagsFileRewrittenAsRead ==
    (pc = "tagged" /\ raised = NoException) =>
        /\ tags_file = File(landsat_images_data)
        /\ landsat_images_data \in TagsPool

(***************************************************************************)
(* The aggregate as the argument of create_satellite_images_paths.         *)
(***************************************************************************)
\* C28: every aggregate organize_satellite_data_json returns is safe input
\* for create_satellite_images_paths: each year has non-empty satellites,
\* correction_level, collection_number and collection_category lists, at
\* least one record in values, at least one token in the bands of every
\* record and at most eleven missing months, and the synthesizer's lookups
\* of the first elements raise nothing on it.
C28_AggregateSafeForPaths ==
    /\ JsonReturned =>
          /\ first_elements_exist(landsat_images_data)
          /\ \A y \in 1..Len(landsat_images_data) :
                \A image_data \in {landsat_images_data[y][2]} :
                   /\ image_data.satellites # <<>>
                   /\ image_data.correction_level # <<>>
                   /\ image_data.collection_number # <<>>
                   /\ image_data.collection_category # <<>>
                   /\ image_data.values # <<>>
                   /\ \A g \in 1..Len(image_data.values) :
                         image_data.values[g].bands # <<>>
                   /\ Len(image_data.missing_months) <= 11
    /\ pc = "paths" =>
          /\ raised = NoException
          /\ image_paths # None \/ landsat_images_data = <<>>

\* Two years, one of them with two groups, after the paths were made.
C28_Witness ==
    /\ pc = "paths"
    /\ raised = NoException
    /\ Len(landsat_images_data) = 2
    /\ \E y \in 1..2 : Len(landsat_images_data[y][2].values) = 2
    /\ Len(image_paths) = 3
    /\ Decodable(image_filenames) = {1, 2, 3}

\* A name that does not decode among names that do.
C28_WitnessUndecodable ==
    /\ pc = "paths"
    /\ Len(image_filenames) = 3
    /\ Cardinality(Decodable(image_filenames)) = 2
    /\ Len(image_paths) = 2

(***************************************************************************)
(* The report and the aggregate of one list of filenames.                  *)
(***************************************************************************)
\* The last position of the year block whose heading is at h.
BlockEnd(text, headings, h) ==
    IF \E j \in headings : j > h
    THEN (CHOOSE j \in headings : j > h /\ \A k \in headings : k > h => j <= k) - 1
    ELSE Len(text)

\* The months the block whose heading is at h lists as missing, in the
\* order of its "Missing Months" line; none if the block has no such line.
MissingMonthsOfBlock(text, headings, h) ==
    IF \E i \in h..BlockEnd(text, headings, h) : MissingMonthsLineAt(text, i)
    THEN LET from == Len(MissingMonthsLabel)
                         + CHOOSE i \in h..BlockEnd(text, headings, h) :
                              MissingMonthsLineAt(text, i)
         IN MonthsOfLine(SubSeq(text, from, LineEnd(text, from) - 1))
    ELSE <<>>

EntryOfYear(data, year) ==
    data[CHOOSE y \in 1..Len(data) : data[y][1] = year][2]

\* C29: the report and the aggregate of one list of filenames agree: the
\* years that have a block in the report are the keys of the aggregate, and
\* the months a block lists as missing are the missing_months of its year.
C29_ReportAndAggregateAgree ==
    pc = "txt" =>
        \A headings \in {YearHeadings(report)} :
           /\ {YearAt(report, h) : h \in headings} = Range(YearKeys(landsat_images_data))
           /\ Cardinality(headings) = Len(landsat_images_data)
           /\ \A h \in headings :
                 MissingMonthsOfBlock(report, headings, h)
                    = EntryOfYear(landsat_images_data, YearAt(report, h)).missing_months

\* Two years, one with a file in each of the twelve months and so without
\* a "Missing Months" line.
C29_Witness ==
    /\ pc = "txt"
    /\ Len(landsat_images_data) = 2
    /\ Cardinality(YearHeadings(report)) = 2
    /\ \E y \in 1..2 : landsat_images_data[y][2].missing_months = <<>>
    /\ Cardinality({i \in 1..Len(report) : MissingMonthsLineAt(report, i)}) = 1

(***************************************************************************)
(* The names of the derived products: a filename is decoded, the name of   *)
(* its clipped file is made, and the suffix and extension of that name are *)
(* replaced.                                                               *)
(***************************************************************************)
\* os.path.splitext(filename): the extension starts at the last dot of the
\* basename, unless only dots come before it.
splitext(path) ==
    LET start == Len(path) - Len(Basename(path)) + 1
        dots == {i \in start..Len(path) :
                    path[i] = "." /\ \E j \in start..(i - 1) : path[j] # "."}
    IN IF dots = {} THEN <<path, <<>>>>
       ELSE LET last == CHOOSE i \in dots : \A j \in dots : j <= i
            IN <<SubSeq(path, 1, last - 1), SubSeq(path, last, Len(path))>>

\* name.rsplit("_", maxsplit)[0]: the name before the last maxsplit
\* underscores, before the first one if it has fewer.
rsplit_first(name, maxsplit) ==
    LET underscores == {i \in 1..Len(name) : name[i] = "_"}
        cut == {i \in underscores :
                   Cardinality({j \in underscores : j >= i}) <= maxsplit}
    IN IF cut = {} THEN name
       ELSE SubSeq(name, 1, (CHOOSE i \in cut : \A j \in cut : i <= j) - 1)

UNDEFINED == <<"U", "N", "D", "E", "F", "I", "N", "E", "D">>

replace_suffix_and_extension(name_and_ext, new_suffix, new_extension) ==
    LET name == rsplit_first(splitext(name_and_ext)[1], 3)
        ext == splitext(name_and_ext)[2]
    IN name \o (IF new_suffix # <<>> THEN <<"_">> \o new_suffix ELSE UNDEFINED)
       \o <<".">> \o (IF new_extension # <<>> THEN new_extension ELSE ext)

\* The filenames of the acquisitions and scenes, with every surface and
\* every band of one or more tokens, and a name that does not decode.
ProductInputs ==
    {NotAValidFilename} \cup
    {[pre |-> <<>>,
      fields |-> <<LC08, L2SP, w, ad, D20200701, C02, T1, su>>,
      band_tokens |-> bt, ext |-> TIF, post |-> <<>>] :
        w \in WrsValues, ad \in AcquisitionDates, su \in Surfaces, bt \in BandTokenSeqs}

\* None and "" are both false in "if suffix".
ProductSuffixes == {None, <<"N", "D", "S", "I">>, <<"T", "R", "U", "E", "_", "C", "O", "L", "O", "R">>}

ProductExtensions == {None, <<"p", "n", "g">>}

InitProduct ==
    /\ pc = "start"
    /\ parts \in ProductInputs
    /\ filename = Build(parts)
    /\ details = None
    /\ image_filenames = <<>>
    /\ landsat_images_data = <<>>
    /\ report = <<>>
    /\ image_directory = <<>>
    /\ image_paths = <<>>
    /\ HandlersNotRun

CreateCustomFilename ==
    /\ pc = "decoded"
    /\ IF details = None
       THEN /\ raised' = TypeError
            /\ UNCHANGED product_filename
       ELSE /\ product_filename' = create_custom_filename(
                                       details, CROPPED, ORIGINAL_DATASET_IMAGE_EXTENSION)
            /\ raised' = NoException
    /\ pc' = "custom"
    /\ UNCHANGED <<parts, filename, details, image_filenames, landsat_images_data,
                   report, image_directory, image_paths, original_dataset,
                   metadata_file, report_file, exit_status, core_calls, output_files,
                   printed, calls, hash_seed, last_structured_data, tags_file,
                   product_suffix, product_extension>>

ReplaceSuffixAndExtension ==
    /\ pc = "custom"
    /\ raised = NoException
    /\ \E new_suffix \in ProductSuffixes, new_extension \in ProductExtensions :
          /\ product_suffix' = new_suffix
          /\ product_extension' = new_extension
          /\ product_filename' =
                replace_suffix_and_extension(product_filename, new_suffix, new_extension)
    /\ pc' = "replaced"
    /\ UNCHANGED <<parts, filename, details, image_filenames, landsat_images_data,
                   report, image_directory, image_paths, handler_vars, calls,
                   hash_seed, last_structured_data, tags_file>>

NextProduct == Decode \/ CreateCustomFilename \/ ReplaceSuffixAndExtension

SpecProduct == InitProduct /\ [][NextProduct]_vars

\* C30: for every record the decoder returns, the name made by
\* create_custom_filename(record, "CROPPED", "TIF") and then given the suffix
\* S and the extension E is "{acquisition_date}_{wrs}_{S}.{E}", whatever the
\* surface and the band are, bands of several tokens included.
C30_ProductNameOfDateAndScene ==
    (pc = "replaced" /\ product_suffix # None /\ product_extension # None) =>
        product_filename = details.acquisition_date \o <<"_">> \o details.wrs
                           \o <<"_">> \o product_suffix \o <<".">> \o product_extension

\* What the code does: the last three underscore-separated tokens are cut
\* off, so the name is as stated for a band of one token, and keeps the
\* surface and all but the last two tokens of a longer band.
C30_LastThreeTokensReplaced ==
    (pc = "replaced" /\ product_suffix # None /\ product_extension # None) =>
        product_filename =
            Join(<<details.acquisition_date, details.wrs>>
                 \o SubSeq(<<details.surface>> \o parts.band_tokens, 1,
                           Len(parts.band_tokens) - 1)
                 \o <<product_suffix>>, <<"_">>)
            \o <<".">> \o product_extension

====
